---- MODULE Spec2Model ----
(***************************************************************************)
(* Model of the horizontal comparison-table parser                         *)
(* (scripts/modules/horizontal_table_parser.py), its route extractor       *)
(* (scripts/modules/route_extractor.py) and the location whitelist         *)
(* (scripts/data/location_whitelist.py).                                   *)
(*                                                                         *)
(* Text is a sequence of atoms.  An atom stands for a fixed piece of       *)
(* source text; substring, prefix, suffix, split and strip are computed    *)
(* on atoms the way Python computes them on characters.                    *)
(*                                                                         *)
(*   "SZ" 深圳   "HK" 香港   "SG" 新加坡  "UK" 英国   "TK" 东京            *)
(*   "MY" 马来   "XY" 西亚   (<<"MY","XY">> is 马来西亚)                   *)
(*   "MARS" 火星 (no location)                                             *)
(*   "FEE" 费用  "AGT" 代理  "ZX" 专线   "KY" 空运   "HJ" 货交             *)
(*   "RX" 融迅   "YSD" 银顺达  "DF" 东方  (agent names)                    *)
(*   "ORD1" 订单1  "ORD2" 订单2  (sheet names)                             *)
(*   "-" hyphen  "FW" fullwidth hyphen U+FF0D  ":" colon  "|" bar          *)
(*   "/" slash   " " space   "." full stop                                 *)
(*   "0" "5" the digits   "N81" a run of 81 digits 0                       *)
(*   "KG" kg   "CBM" cbm   "YUAN" 元   "NAN" the text nan                  *)
(*   "NONE" the text None                                                  *)
(***************************************************************************)
EXTENDS Integers, Sequences, FiniteSets, TLC

VARIABLES
    sheet_data,        \* rows handed to parse_sheet / _find_table_boundaries
    route_extractor,   \* HorizontalTableParser.route_extractor is set (TRUE) or None (FALSE)
    table_boundaries,  \* spans of the last scan: <<start_row, end_row, route_text>>
    sheet_name,        \* sheet_name argument of the last parse_sheet call
    all_quotes,        \* list returned by the last parse_sheet call
    seen_routes,       \* parse_sheet's local set of merge signatures, as it was on return
    table_quotes,      \* per span, the list _parse_single_table returned in the last call
    prev_sheet_name,   \* sheet_name of the call before the last one
    prev_quotes,       \* list returned by the call before the last one
    text_in,           \* text argument of the last _extract_route_from_text call
    name_in,           \* sheet_name argument of the last _extract_route_from_text call
    route,             \* Route returned by the last _extract_route_from_text call
    route_ids,         \* per quote of the last _parse_single_table call, the Route object it holds (0: base_route)
    routes,            \* HorizontalParserRunner.routes
    route_agents,      \* HorizontalParserRunner.route_agents
    route_id,          \* HorizontalParserRunner.route_id, the next route id
    agent_route_id,    \* HorizontalParserRunner.agent_route_id, the next agent-route id
    route_key_to_id,   \* HorizontalParserRunner.route_key_to_id: raw key -> route id
    filename,          \* number of the file _process_file is working on (0: none yet)
    block_idx,         \* position of the loop of _process_sheet over all_quotes
    history,           \* history: per route_agents record its file and quote block; number of sheets processed; sheet names of the file; the failures
    debug_blocks,      \* records the attached DebugLogger got from the last parse_sheet call
    out,               \* values returned by the calls of a location function on its own, in call order
    pc                 \* last operation that ran

vars == <<sheet_data, route_extractor, table_boundaries, sheet_name, all_quotes,
          seen_routes, table_quotes, prev_sheet_name, prev_quotes,
          text_in, name_in, route, route_ids, routes, route_agents, route_id,
          agent_route_id, route_key_to_id, filename, block_idx, history, debug_blocks,
          out, pc>>

\* the fields of HorizontalParserRunner and the history of its run
runnerVars == <<routes, route_agents, route_id, agent_route_id, route_key_to_id,
                filename, block_idx, history, debug_blocks>>

\* Python None for a text-valued field or cell.
None == <<"None">>

\* Python truthiness of a text-or-None value.
Truthy(x) == x # None /\ x # << >>

----------------------------------------------------------------------------
\* Atoms

Space == " "

\* atoms made of characters of the regex class [一-龥a-zA-Z]
WordAtoms == {"SZ", "HK", "SG", "UK", "TK", "MY", "XY", "MARS",
              "FEE", "AGT", "ZX", "KY", "HJ", "RX", "YSD", "DF", "NAN",
              "KG", "CBM", "YUAN", "NONE"}

\* number of characters an atom stands for
AtomLen(a) ==
    CASE a \in {"SG", "YSD", "ORD1", "ORD2", "NAN", "CBM"} -> 3
      [] a = "N81" -> 81
      [] a = "NONE" -> 4
      [] a \in {"-", "FW", ":", "|", "/", Space, ".", "0", "5", "YUAN"} -> 1
      [] OTHER -> 2

RECURSIVE CharLen(_)
\* len(text)
CharLen(t) == IF t = << >> THEN 0 ELSE AtomLen(Head(t)) + CharLen(Tail(t))

----------------------------------------------------------------------------
\* str operations on atom sequences

\* p in t
IsSub(p, t) ==
    \E i \in 0..(Len(t) - Len(p)) : SubSeq(t, i + 1, i + Len(p)) = p

\* t.startswith(p)
StartsWith(t, p) == Len(p) <= Len(t) /\ SubSeq(t, 1, Len(p)) = p

\* t.endswith(p)
EndsWith(t, p) == Len(p) <= Len(t) /\ SubSeq(t, Len(t) - Len(p) + 1, Len(t)) = p

\* t.find(p) + 1, 0 when p does not occur
Find(p, t) ==
    IF IsSub(p, t)
    THEN CHOOSE i \in 1..(Len(t) - Len(p) + 1) :
            /\ SubSeq(t, i, i + Len(p) - 1) = p
            /\ \A j \in 1..(i - 1) : SubSeq(t, j, j + Len(p) - 1) # p
    ELSE 0

RECURSIVE LStripSet(_, _)
\* t.lstrip(chars)
LStripSet(t, chars) ==
    IF t # << >> /\ Head(t) \in chars THEN LStripSet(Tail(t), chars) ELSE t

RECURSIVE RStripSet(_, _)
\* t.rstrip(chars)
RStripSet(t, chars) ==
    IF t # << >> /\ t[Len(t)] \in chars
    THEN RStripSet(SubSeq(t, 1, Len(t) - 1), chars) ELSE t

\* t.strip(chars)
StripSet(t, chars) == LStripSet(RStripSet(t, chars), chars)

\* t.strip()
Strip(t) == StripSet(t, {Space})

RECURSIVE Split(_, _)
\* t.split(p) for a non-empty separator p
Split(t, p) ==
    LET i == Find(p, t)
    IN IF i = 0 THEN <<t>>
       ELSE <<SubSeq(t, 1, i - 1)>> \o Split(SubSeq(t, i + Len(p), Len(t)), p)

----------------------------------------------------------------------------
\* scripts/data/location_whitelist.py

\* the entries of LOCATION_WHITELIST that can be written with the atoms
LOCATION_WHITELIST ==
    {<<"SZ">>, <<"HK">>, <<"SG">>, <<"UK">>, <<"TK">>, <<"MY">>, <<"MY", "XY">>}

is_valid_location(location) ==
    IF ~Truthy(location) THEN FALSE
    ELSE LET loc == Strip(location)
         IN \/ loc \in LOCATION_WHITELIST
            \/ \E valid_loc \in LOCATION_WHITELIST :
                  IsSub(valid_loc, loc) \/ IsSub(loc, valid_loc)

----------------------------------------------------------------------------
\* Regular expressions of HorizontalTableParser.__init__

Max(S) == CHOOSE x \in S : \A y \in S : y <= x
Min(S) == CHOOSE x \in S : \A y \in S : x <= y

\* Last index of the longest match of [一-龥a-zA-Z]{0,max} that starts at i
\* (i - 1 when nothing matches).
TakeEnd(t, i, max) ==
    Max({j \in (i - 1)..Len(t) :
            /\ \A k \in i..j : t[k] \in WordAtoms
            /\ CharLen(SubSeq(t, i, j)) <= max})

\* First index from i on whose atom is not in S (Len(t) + 1 when there is none):
\* where a greedy S* that starts at i stops.
SkipSet(t, i, S) ==
    Min({j \in i..(Len(t) + 1) : j = Len(t) + 1 \/ t[j] \notin S})

\* text[:n], cut at the last atom boundary within n characters
TakeChars(t, n) ==
    SubSeq(t, 1, Max({j \in 0..Len(t) : CharLen(SubSeq(t, 1, j)) <= n}))

\* atoms of the separator class [-—→>至到] of route_pattern
RoutePatternSeps == {"-"}

\* atoms of the separator class [-—→>] of table_header_pattern
HeaderPatternSeps == {"-"}

NoMatch == [ok |-> FALSE, g1 |-> None, g2 |-> None, g3 |-> None]

\* the match object for the groups gs: a match needs two groups, the third is
\* optional
MatchOf(gs) ==
    IF Len(gs) < 2 THEN NoMatch
    ELSE [ok |-> TRUE, g1 |-> gs[1], g2 |-> gs[2],
          g3 |-> IF Len(gs) > 2 THEN gs[3] ELSE None]

\* index after \s*[seps]+\s* where s is the index after the leading \s*; 0 when
\* no separator stands at s
AfterSepsAt(t, s, seps) ==
    IF s <= Len(t) /\ t[s] \in seps
    THEN SkipSet(t, SkipSet(t, s, seps), {Space})
    ELSE 0

\* index after \s*[seps]+\s* matched from i, 0 when it does not match
AfterSeps(t, i, seps) == AfterSepsAt(t, SkipSet(t, i, {Space}), seps)

RECURSIVE GroupsFrom(_, _, _, _, _)
\* Up to n groups of {2,max} word characters joined by \s*[seps]+\s*, matched
\* from index i: the groups that match, in order; e is the end of the group
\* that starts at i.
GroupsEndingAt(t, i, e, n, max, seps) ==
    IF n = 0 \/ i < 1 \/ i > Len(t) \/ e < i \/ CharLen(SubSeq(t, i, e)) < 2
    THEN << >>
    ELSE <<SubSeq(t, i, e)>> \o GroupsFrom(t, AfterSeps(t, e + 1, seps), n - 1, max, seps)

GroupsFrom(t, i, n, max, seps) ==
    IF i < 1 THEN << >> ELSE GroupsEndingAt(t, i, TakeEnd(t, i, max), n, max, seps)

\* Two or three groups of {2,max} word characters joined by \s*[seps]+\s*,
\* matched from index i; the third group only when withThird.
MatchGroupsAt(t, i, max, seps, withThird) ==
    MatchOf(GroupsFrom(t, i, IF withThird THEN 3 ELSE 2, max, seps))

\* self.route_pattern.search(t)
route_pattern_search(t) ==
    IF \E i \in 1..Len(t) : MatchGroupsAt(t, i, 20, RoutePatternSeps, TRUE).ok
    THEN MatchGroupsAt(t, Min({i \in 1..Len(t) :
                                 MatchGroupsAt(t, i, 20, RoutePatternSeps, TRUE).ok}),
                       20, RoutePatternSeps, TRUE)
    ELSE NoMatch

\* self.table_header_pattern.match(t); the pattern is anchored, so search is the same
table_header_pattern_match(t) ==
    IF StartsWith(t, <<"HJ">>) /\ MatchGroupsAt(t, 2, 15, HeaderPatternSeps, FALSE).ok
    THEN MatchGroupsAt(t, 2, 15, HeaderPatternSeps, FALSE)
    ELSE MatchGroupsAt(t, 1, 15, HeaderPatternSeps, FALSE)

----------------------------------------------------------------------------
\* HorizontalTableParser._find_table_boundaries

\* self.agent_keywords, the entries that can be written with the atoms
agent_keywords == {<<"AGT">>}

\* `not row or not row[0]`
RowSkipped(row) == row = << >> \/ ~Truthy(row[1])

\* first_cell = str(row[0]).strip()
FirstCell(row) == Strip(row[1])

HasColon(t) == IsSub(<<":">>, t)

\* next_row_is_agent of rule 2, for the row at 0-based index row_idx
next_row_is_agent(sheet, row_idx) ==
    /\ row_idx + 1 < Len(sheet)
    /\ LET next_row == sheet[row_idx + 2]
       IN /\ ~RowSkipped(next_row)
          /\ LET next_cell == Strip(next_row[1])
             IN \/ \E kw \in agent_keywords : IsSub(kw, next_cell)
                \/ next_cell \in {<<"/">>, <<"-">>, << >>}

\* rule 1: 货交XXX-XXX: header
Rule1(first_cell) ==
    LET m == table_header_pattern_match(first_cell)
    IN m.ok /\ is_valid_location(m.g1) /\ is_valid_location(m.g2)

\* rule 2: route ending in a colon, kept only before an agent row
Rule2(sheet, row_idx, first_cell) ==
    LET route_part == Strip(RStripSet(first_cell, {":"}))
        m == route_pattern_search(route_part)
    IN /\ CharLen(route_part) < 30
       /\ m.ok /\ is_valid_location(m.g1) /\ is_valid_location(m.g2)
       /\ next_row_is_agent(sheet, row_idx)

\* rule 3: ordinary route header
Rule3(first_cell) ==
    LET m == table_header_pattern_match(first_cell)
    IN m.ok /\ is_valid_location(m.g1) /\ is_valid_location(m.g2)

\* variant of is_valid_title without the length limit
is_valid_title_any_length(sheet, row_idx) ==
    LET row == sheet[row_idx + 1]
    IN IF RowSkipped(row) THEN FALSE
       ELSE LET first_cell == FirstCell(row)
            IN IF StartsWith(first_cell, <<"HJ">>) /\ HasColon(first_cell)
               THEN Rule1(first_cell)
               ELSE IF HasColon(first_cell)
                    THEN Rule2(sheet, row_idx, first_cell)
               ELSE IF ~EndsWith(first_cell, <<":">>)
                    THEN Rule3(first_cell)
               ELSE FALSE

\* is_valid_title after the loop body ran for the row at 0-based index row_idx
is_valid_title(sheet, row_idx) ==
    LET row == sheet[row_idx + 1]
    IN IF RowSkipped(row) THEN FALSE
       ELSE LET first_cell == FirstCell(row)
            IN IF CharLen(first_cell) > 80 THEN FALSE
               ELSE IF StartsWith(first_cell, <<"HJ">>) /\ HasColon(first_cell)
                    THEN Rule1(first_cell)
               ELSE IF HasColon(first_cell)
                    THEN Rule2(sheet, row_idx, first_cell)
               ELSE IF ~EndsWith(first_cell, <<":">>)
                    THEN Rule3(first_cell)
               ELSE FALSE

RECURSIVE ScanRowsCloseAtTitle(_, _, _, _, _)
\* variant of the loop that closes the previous table at the new title row
ScanRowsCloseAtTitle(sheet, row_idx, boundaries, current_start, current_route_text) ==
    IF row_idx >= Len(sheet)
    THEN IF current_start # -1
         THEN Append(boundaries, <<current_start, Len(sheet) - 1, current_route_text>>)
         ELSE boundaries
    ELSE IF is_valid_title(sheet, row_idx)
         THEN ScanRowsCloseAtTitle(sheet, row_idx + 1,
                       IF current_start # -1
                       THEN Append(boundaries, <<current_start, row_idx, current_route_text>>)
                       ELSE boundaries,
                       row_idx, FirstCell(sheet[row_idx + 1]))
         ELSE ScanRowsCloseAtTitle(sheet, row_idx + 1, boundaries, current_start,
                                   current_route_text)

RECURSIVE ScanRows(_, _, _, _, _)
\* the for loop and the closing of the last table; current_start is -1 for None
ScanRows(sheet, row_idx, boundaries, current_start, current_route_text) ==
    IF row_idx >= Len(sheet)
    THEN IF current_start # -1
         THEN Append(boundaries, <<current_start, Len(sheet) - 1, current_route_text>>)
         ELSE boundaries
    ELSE IF is_valid_title(sheet, row_idx)
         THEN ScanRows(sheet, row_idx + 1,
                       IF current_start # -1
                       THEN Append(boundaries, <<current_start, row_idx - 1, current_route_text>>)
                       ELSE boundaries,
                       row_idx, FirstCell(sheet[row_idx + 1]))
         ELSE ScanRows(sheet, row_idx + 1, boundaries, current_start, current_route_text)

\* variant of strategy 2 that takes the first row without the route pattern
FirstRowFallbackNoPattern(sheet) ==
    IF sheet[1] = << >> THEN << >>
    ELSE << <<0, Len(sheet) - 1, Strip(sheet[1][1])>> >>

\* strategy 2: the whole sheet as one table when its first row carries a route
FirstRowFallback(sheet) ==
    IF sheet[1] = << >> THEN << >>
    ELSE LET first_cell == Strip(sheet[1][1])
             route_part == IF IsSub(<<"|">>, first_cell)
                           THEN Strip(Split(first_cell, <<"|">>)[1])
                           ELSE first_cell
         IN IF /\ Truthy(route_part)
               /\ CharLen(route_part) < 100
               /\ route_pattern_search(route_part).ok
            THEN << <<0, Len(sheet) - 1, first_cell>> >>
            ELSE << >>

find_table_boundaries(sheet) ==
    LET boundaries == ScanRows(sheet, 0, << >>, -1, None)
    IN IF boundaries = << >> /\ sheet # << >>
       THEN FirstRowFallback(sheet)
       ELSE boundaries

----------------------------------------------------------------------------
\* scripts/data/location_whitelist.py: clean_location_text

\* prefixes of clean_location_text, the entries that can be written with the
\* atoms, in list order
location_prefixes == << <<"HJ">> >>

\* business_words of clean_location_text, the entries that can be written with
\* the atoms, in list order
business_words == << <<"ZX">>, <<"KY">>, <<"AGT">> >>

RECURSIVE StripPrefixes(_, _)
\* for prefix in prefixes: if text.startswith(prefix): text = text[len(prefix):]
StripPrefixes(text, k) ==
    IF k > Len(location_prefixes) THEN text
    ELSE LET prefix == location_prefixes[k]
         IN StripPrefixes(IF StartsWith(text, prefix)
                          THEN SubSeq(text, Len(prefix) + 1, Len(text))
                          ELSE text, k + 1)

RECURSIVE CutBusinessWord(_, _)
\* for word in business_words: if word in text: cut text at the word and break
CutBusinessWord(text, k) ==
    IF k > Len(business_words) THEN text
    ELSE IF IsSub(business_words[k], text)
         THEN Strip(Split(text, business_words[k])[1])
    ELSE CutBusinessWord(text, k + 1)

clean_location_text(text) ==
    IF ~Truthy(text) THEN << >>
    ELSE Strip(CutBusinessWord(Split(StripPrefixes(text, 1), <<":">>)[1], 1))

----------------------------------------------------------------------------
\* scripts/modules/route_extractor.py

\* self.route_separators, the entries that can be written with the atoms, in
\* list order: "--", "－", "-"
route_separators == << <<"-", "-">>, <<"FW">>, <<"-">> >>

\* self.business_keywords, the entries that can be written with the atoms, in
\* list order
business_keywords == << <<"KY">>, <<"ZX">>, <<"AGT">>, <<"FEE">>, <<"HJ">> >>

\* the names _deep_clean_location looks for in the original text, the entries
\* that can be written with the atoms, in list order
core_locations == << <<"SZ">>, <<"HK">>, <<"SG">>, <<"MY", "XY">>, <<"MY">>, <<"UK">> >>

RECURSIVE KeywordCut(_, _)
\* one pass of `for keyword in self.business_keywords` over cleaned, from entry k
\* parts = cleaned.split(keyword): parts[0].strip() or, when that is empty,
\* parts[1].strip(); << >> when both are empty
KeptPart(parts) ==
    IF Strip(parts[1]) # << >> THEN Strip(parts[1])
    ELSE IF Len(parts) > 1 THEN Strip(parts[2])
    ELSE << >>

KeywordCut(cleaned, k) ==
    IF k > Len(business_keywords) THEN cleaned
    ELSE IF IsSub(business_keywords[k], cleaned)
            /\ KeptPart(Split(cleaned, business_keywords[k])) # << >>
         THEN KeptPart(Split(cleaned, business_keywords[k]))
    ELSE KeywordCut(cleaned, k + 1)

RECURSIVE KeywordRounds(_, _)
\* for _ in range(max_iterations), stopping when a round changes nothing
KeywordRounds(cleaned, rounds) ==
    IF rounds = 0 \/ KeywordCut(cleaned, 1) = cleaned THEN cleaned
    ELSE KeywordRounds(KeywordCut(cleaned, 1), rounds - 1)

RECURSIVE FirstCoreLocation(_, _, _)
\* for core in core_locations: if core in location: return core; cleaned when
\* no core name occurs
FirstCoreLocation(location, cleaned, k) ==
    IF k > Len(core_locations) THEN cleaned
    ELSE IF IsSub(core_locations[k], location) THEN core_locations[k]
    ELSE FirstCoreLocation(location, cleaned, k + 1)

\* the end of _deep_clean_location: a result of less than 2 characters is
\* replaced by a core name found in the original text
CoreOrCleaned(location, cleaned) ==
    IF cleaned = << >> \/ CharLen(cleaned) < 2
    THEN FirstCoreLocation(location, cleaned, 1)
    ELSE cleaned

deep_clean_location(location) ==
    IF ~Truthy(location) THEN << >>
    ELSE CoreOrCleaned(location,
             StripSet(KeywordRounds(clean_location_text(location), 3), {":", Space}))

----------------------------------------------------------------------------
\* Numbers in front of a unit: weight_pattern, volume_pattern, value_pattern

\* atoms of the regex class \d
DigitAtoms == {"0", "5", "N81"}

\* the alternatives of the unit groups of weight_pattern, volume_pattern and
\* value_pattern that can be written with the atoms
units_of == [weight |-> {"KG"}, volume |-> {"CBM"}, value |-> {"YUAN"}]

\* last index of \d+(?:\.\d+)? matched from the digit at index i
NumberEnd(t, i) ==
    IF /\ SkipSet(t, i, DigitAtoms) + 1 <= Len(t)
       /\ t[SkipSet(t, i, DigitAtoms)] = "."
       /\ t[SkipSet(t, i, DigitAtoms) + 1] \in DigitAtoms
    THEN SkipSet(t, SkipSet(t, i, DigitAtoms) + 1, DigitAtoms) - 1
    ELSE SkipSet(t, i, DigitAtoms) - 1

\* index of the unit of (\d+(?:\.\d+)?)\s*(?:units) matched from index i, 0
\* when the pattern does not match there
UnitIndex(t, i, units) ==
    IF t[i] \notin DigitAtoms THEN 0
    ELSE IF /\ SkipSet(t, NumberEnd(t, i) + 1, {Space}) <= Len(t)
            /\ t[SkipSet(t, NumberEnd(t, i) + 1, {Space})] \in units
         THEN SkipSet(t, NumberEnd(t, i) + 1, {Space})
    ELSE 0

\* float(numeral) as the shortest numeral of the same value: no leading zero
\* but one, no trailing zero after the point, no point before nothing
ShortestNumeral(int, frac) ==
    (IF int = << >> THEN <<"0">> ELSE int)
    \o (IF frac = << >> THEN << >> ELSE <<".">> \o frac)

float(numeral) ==
    IF IsSub(<<".">>, numeral)
    THEN ShortestNumeral(
             LStripSet(SubSeq(numeral, 1, Find(<<".">>, numeral) - 1), {"0", "N81"}),
             RStripSet(SubSeq(numeral, Find(<<".">>, numeral) + 1, Len(numeral)),
                       {"0", "N81"}))
    ELSE ShortestNumeral(LStripSet(numeral, {"0", "N81"}), << >>)

\* truthiness of a float-or-None value
NonZero(x) == x # None /\ x # <<"0">>

\* _extract_weight, _extract_volume, _extract_value for the units of their
\* pattern: the number of the leftmost match, None without a match
extract_number(text, units) ==
    IF \E i \in 1..Len(text) : UnitIndex(text, i, units) > 0
    THEN float(SubSeq(text, Min({i \in 1..Len(text) : UnitIndex(text, i, units) > 0}),
                      NumberEnd(text, Min({i \in 1..Len(text) :
                                             UnitIndex(text, i, units) > 0}))))
    ELSE None

\* atoms the separator group (→|->|--?|—|~|至|到) of RouteExtractor.route_pattern
\* can start with
ExtractorPatternSeps == {"-"}

\* index after \s*(→|->|--?|—|~|至|到)\s* where s is the index after the leading
\* \s*; 0 when no separator stands at s
AfterExtractorSepAt(t, s) ==
    IF s > Len(t) \/ t[s] \notin ExtractorPatternSeps THEN 0
    ELSE IF t[s] = "-" /\ s + 1 <= Len(t) /\ t[s + 1] = "-"
         THEN SkipSet(t, s + 2, {Space})
    ELSE SkipSet(t, s + 1, {Space})

\* index after \s*(→|->|--?|—|~|至|到)\s* matched from i, 0 when it does not match
AfterExtractorSep(t, i) == AfterExtractorSepAt(t, SkipSet(t, i, {Space}))

RECURSIVE ExtractorGroupsFrom(_, _, _)
\* Up to n groups of {2,20} word characters joined by one separator each,
\* matched from index i: the groups that match, in order; e is the end of the
\* group that starts at i.
ExtractorGroupsEndingAt(t, i, e, n) ==
    IF n = 0 \/ i < 1 \/ i > Len(t) \/ e < i \/ CharLen(SubSeq(t, i, e)) < 2
    THEN << >>
    ELSE <<SubSeq(t, i, e)>> \o ExtractorGroupsFrom(t, AfterExtractorSep(t, e + 1), n - 1)

ExtractorGroupsFrom(t, i, n) ==
    IF i < 1 THEN << >> ELSE ExtractorGroupsEndingAt(t, i, TakeEnd(t, i, 20), n)

\* RouteExtractor.route_pattern matched from index i
ExtractorMatchAt(t, i) == MatchOf(ExtractorGroupsFrom(t, i, 3))

RECURSIVE ExtractorMatchStart(_, _)
\* match.start() of RouteExtractor.route_pattern.search(t) looked for from
\* index i on, as the index of the first atom of the match; 0 without a match
ExtractorMatchStart(t, i) ==
    IF i > Len(t) THEN 0
    ELSE IF ExtractorMatchAt(t, i).ok THEN i
    ELSE ExtractorMatchStart(t, i + 1)

\* RouteExtractor.route_pattern.search(t)
extractor_pattern_search(t) ==
    IF ExtractorMatchStart(t, 1) = 0 THEN NoMatch
    ELSE ExtractorMatchAt(t, ExtractorMatchStart(t, 1))

RECURSIVE RemoveNumbers(_, _)
\* re.sub(r'\d+(?:\.\d+)?\s*(?:kg|KG|cbm|CBM|元|¥)', '', t)
RemoveNumbers(t, units) ==
    IF \E i \in 1..Len(t) : UnitIndex(t, i, units) > 0
    THEN SubSeq(t, 1, Min({i \in 1..Len(t) : UnitIndex(t, i, units) > 0}) - 1)
         \o RemoveNumbers(
                SubSeq(t, UnitIndex(t, Min({i \in 1..Len(t) : UnitIndex(t, i, units) > 0}),
                                    units) + 1, Len(t)),
                units)
    ELSE t

RECURSIVE ExtractorMatchEnd(_, _, _)
\* match.end() of RouteExtractor.route_pattern matched from index i with up to
\* n groups, as the index of the last atom of the match; 0 when no group
\* matches at i
ExtractorMatchEnd(t, i, n) ==
    IF n = 0 \/ i < 1 \/ i > Len(t) \/ CharLen(SubSeq(t, i, TakeEnd(t, i, 20))) < 2
    THEN 0
    ELSE Max({TakeEnd(t, i, 20),
              ExtractorMatchEnd(t, AfterExtractorSep(t, TakeEnd(t, i, 20) + 1), n - 1)})

\* trade_remark of _extract_route_parts for remaining, the stripped text after
\* the match: None when nothing is left of it, else cut to 100 characters
RemarkOf(remaining) ==
    IF remaining = << >> \/ Strip(RemoveNumbers(remaining, {"KG", "CBM", "YUAN"})) = << >>
    THEN None
    ELSE TakeChars(Strip(RemoveNumbers(remaining, {"KG", "CBM", "YUAN"})), 100)

\* trade_remark of _extract_route_parts for a text the pattern matches
trade_remark(text) ==
    RemarkOf(Strip(SubSeq(text,
                          ExtractorMatchEnd(text, ExtractorMatchStart(text, 1), 3) + 1,
                          Len(text))))

\* the dict returned by the extractor: origin, destination, via, trade_remark
Parts(origin, destination, via) ==
    [origin |-> origin, destination |-> destination, via |-> via,
     trade_remark |-> None]

\* what the extractor returns when it finds no route
NoParts == Parts(None, None, None)

\* [x for x in list if keep(x)] for the two filters of _manual_split_route
RECURSIVE CleanedParts(_)
CleanedParts(parts) ==
    IF parts = << >> THEN << >>
    ELSE (IF Head(parts) # << >> THEN <<deep_clean_location(Head(parts))>> ELSE << >>)
         \o CleanedParts(Tail(parts))

RECURSIVE ValidParts(_)
ValidParts(parts) ==
    IF parts = << >> THEN << >>
    ELSE (IF Head(parts) # << >> /\ is_valid_location(Head(parts))
          THEN <<Head(parts)>> ELSE << >>)
         \o ValidParts(Tail(parts))

\* [p.strip() for p in parts]
StripAll(parts) == [i \in DOMAIN parts |-> Strip(parts[i])]

\* the dict _manual_split_route builds from valid_parts
PartsOfSplit(valid_parts) ==
    Parts(valid_parts[1], valid_parts[2],
          IF Len(valid_parts) > 2 THEN valid_parts[3] ELSE None)

\* valid_parts of _manual_split_route for the separator sep
SplitValidParts(text, sep) == ValidParts(CleanedParts(StripAll(Split(text, sep))))

RECURSIVE ManualSplitFrom(_, _)
\* the loop of _manual_split_route from separator k on
ManualSplitFrom(text, k) ==
    IF k > Len(route_separators) THEN NoParts
    ELSE IF /\ IsSub(route_separators[k], text)
            /\ Len(SplitValidParts(text, route_separators[k])) >= 2
         THEN PartsOfSplit(SplitValidParts(text, route_separators[k]))
    ELSE ManualSplitFrom(text, k + 1)

manual_split_route(text) == ManualSplitFrom(text, 1)

\* `if not is_valid_location(x): x = None` for the cleaned origin and destination
ValidOrNone(location) == IF is_valid_location(location) THEN location ELSE None

\* `if via and not is_valid_location(via): via = None`
ValidViaOrNone(via) ==
    IF Truthy(via) /\ ~is_valid_location(via) THEN None ELSE via

\* `if origin and destination: return {...}`, else the manual split of text
PartsOrManualSplit(origin, destination, via, text) ==
    IF Truthy(origin) /\ Truthy(destination)
    THEN [Parts(origin, destination, via) EXCEPT !.trade_remark = trade_remark(text)]
    ELSE manual_split_route(text)

\* the `if match:` branch and the fallback after it; with three groups the
\* second is the via and the third the destination
PartsOfMatch(match, text) ==
    IF ~match.ok THEN manual_split_route(text)
    ELSE PartsOrManualSplit(
             ValidOrNone(deep_clean_location(match.g1)),
             ValidOrNone(deep_clean_location(IF Truthy(match.g3) THEN match.g3
                                             ELSE match.g2)),
             IF Truthy(match.g3) THEN ValidViaOrNone(deep_clean_location(match.g2))
             ELSE None,
             text)

extract_route_parts(text) == PartsOfMatch(extractor_pattern_search(text), text)

\* variant of WithFallbackStart in which a valid cleaned_start replaces the
\* origin of the text
WithFallbackStartAlways(route_parts, fallback_start, cleaned_start) ==
    IF Truthy(fallback_start) /\ is_valid_location(cleaned_start)
    THEN [route_parts EXCEPT !.origin = cleaned_start]
    ELSE route_parts

\* the use of fallback_start in extract_route, cleaned_start being its cleaned
\* form
WithFallbackStart(route_parts, fallback_start, cleaned_start) ==
    IF ~Truthy(route_parts.origin) /\ Truthy(fallback_start)
       /\ is_valid_location(cleaned_start)
    THEN [route_parts EXCEPT !.origin = cleaned_start]
    ELSE route_parts

extract_route(text, fallback_start) ==
    IF ~Truthy(text) THEN NoParts
    ELSE WithFallbackStart(extract_route_parts(text), fallback_start,
                           deep_clean_location(fallback_start))

----------------------------------------------------------------------------
\* Route dataclass: 起始地, 目的地, 途径地, 贸易备注, 交易开始日期, 交易结束日期,
\* 实际重量, 计费重量, 总体积, 货值, _raw, _sheet_name

NewRoute(origin, destination, via, raw, sheet) ==
    [origin |-> origin, destination |-> destination, via |-> via,
     remark |-> None, start_date |-> None, end_date |-> None,
     actual_weight |-> None, billing_weight |-> None,
     volume |-> None, value |-> None, raw |-> raw, sheet |-> sheet]

\* Route() with every field at its default
EmptyRoute == NewRoute(None, None, None, None, None)

RECURSIVE ReplaceAll(_, _, _)
\* t.replace(old, new) for a non-empty old
ReplaceAll(t, old, new) ==
    LET i == Find(old, t)
    IN IF i = 0 THEN t
       ELSE SubSeq(t, 1, i - 1) \o new
            \o ReplaceAll(SubSeq(t, i + Len(old), Len(t)), old, new)

\* location_normalization_map, the entries that can be written with the atoms,
\* in dict order: 马来西亚 -> 马来
location_normalization_map == << <<<<"MY", "XY">>, <<"MY">>>> >>

RECURSIVE ApplyNormalization(_, _)
\* for full_name, standard_name in location_normalization_map.items()
ApplyNormalization(location, k) ==
    IF k > Len(location_normalization_map) THEN location
    ELSE LET full_name == location_normalization_map[k][1]
             standard_name == location_normalization_map[k][2]
         IN ApplyNormalization(IF IsSub(full_name, location)
                               THEN ReplaceAll(location, full_name, standard_name)
                               ELSE location, k + 1)

\* Route.normalize_location
normalize_location(location) ==
    IF ~Truthy(location) THEN location
    ELSE ApplyNormalization(Strip(location), 1)

\* Route.get_route_signature: f"{起始地_标准}|{目的地_标准}|{途径地_标准}"
get_route_signature(r) ==
    normalize_location(r.origin) \o <<"|">> \o normalize_location(r.destination)
    \o <<"|">> \o (IF Truthy(r.via) THEN normalize_location(r.via) ELSE None)

----------------------------------------------------------------------------
\* HorizontalTableParser._extract_route_from_text

\* self.business_suffixes, the entries that can be written with the atoms, in
\* list order
business_suffixes == << <<"ZX">>, <<"KY">> >>

\* one pass of `for suffix in self.business_suffixes`
SuffixCut(cleaned) ==
    LET ks == {k \in 1..Len(business_suffixes) : EndsWith(cleaned, business_suffixes[k])}
    IN IF ks = {} THEN cleaned
       ELSE Strip(SubSeq(cleaned, 1, Len(cleaned) - Len(business_suffixes[Min(ks)])))

RECURSIVE SuffixRounds(_, _)
\* for iteration in range(3), stopping when a round changes nothing
SuffixRounds(cleaned, rounds) ==
    IF rounds = 0 THEN cleaned
    ELSE LET next == SuffixCut(cleaned)
         IN IF next = cleaned THEN cleaned ELSE SuffixRounds(next, rounds - 1)

\* variant of clean_location_suffix that returns the cleaned text whatever its
\* length
clean_location_suffix_keep_short(location) ==
    IF ~Truthy(location) THEN location
    ELSE SuffixRounds(location, 3)

clean_location_suffix(location) ==
    IF ~Truthy(location) THEN location
    ELSE LET cleaned == SuffixRounds(location, 3)
         IN IF CharLen(cleaned) < 2 THEN location ELSE cleaned

\* route_part of _extract_route_from_text
RoutePart(text) ==
    LET p == IF IsSub(<<"|">>, text) THEN Strip(Split(text, <<"|">>)[1]) ELSE text
    IN Strip(RStripSet(p, {":"}))

\* the branch that uses self.route_extractor
\* the Route filled from origin, destination and via: the destination loses
\* its business suffixes, _raw is text[:100]
FilledRoute(origin, destination, via, text, sheet) ==
    NewRoute(origin,
             IF Truthy(destination) THEN clean_location_suffix(destination)
             ELSE destination,
             via, TakeChars(text, 100), sheet)

\* the Route filled from the dict of the extractor
RouteOfInfo(route_info, text, sheet) ==
    [FilledRoute(route_info.origin, route_info.destination, route_info.via, text, sheet)
     EXCEPT !.remark = route_info.trade_remark]

\* the assignments of weight, volume and value of route_info,
\* and the billing weight that defaults to the actual weight
WithInfo(r, weight, volume, value) ==
    [r EXCEPT !.actual_weight = weight,
              !.billing_weight = IF NonZero(weight) /\ ~NonZero(r.billing_weight)
                                 THEN weight ELSE r.billing_weight,
              !.volume = volume, !.value = value]

ExtractWithExtractor(text, sheet) ==
    WithInfo(RouteOfInfo(extract_route(RoutePart(text), sheet), text, sheet),
             extract_number(RoutePart(text), units_of.weight),
             extract_number(RoutePart(text), units_of.volume),
             extract_number(RoutePart(text), units_of.value))

\* the built-in branch, taken when self.route_extractor is None
\* the built-in assignment of the three stripped groups: with a valid third
\* group the second is the via and the third the destination
BuiltInRoute(start_raw, end_raw, via_raw, text, sheet) ==
    FilledRoute(ValidOrNone(start_raw),
                IF ~is_valid_location(end_raw) THEN None
                ELSE IF Truthy(via_raw) /\ is_valid_location(via_raw) THEN via_raw
                ELSE end_raw,
                IF Truthy(via_raw) /\ is_valid_location(via_raw)
                   /\ is_valid_location(end_raw)
                THEN end_raw ELSE None,
                text, sheet)

\* the Route filled from the match of self.route_pattern
RouteOfMatch(route_match, text, sheet) ==
    IF ~route_match.ok THEN FilledRoute(None, None, None, text, sheet)
    ELSE BuiltInRoute(Strip(route_match.g1), Strip(route_match.g2),
                      IF Truthy(route_match.g3) THEN Strip(route_match.g3) ELSE None,
                      text, sheet)

\* the three searches of the built-in branch: a match sets the field, and a
\* weight match sets the billing weight as well
WithMatches(r, weight, volume, value) ==
    [r EXCEPT !.actual_weight = IF weight # None THEN weight ELSE @,
              !.billing_weight = IF weight # None THEN weight ELSE @,
              !.volume = IF volume # None THEN volume ELSE @,
              !.value = IF value # None THEN value ELSE @]

ExtractBuiltIn(text, sheet) ==
    WithMatches(RouteOfMatch(route_pattern_search(RoutePart(text)), text, sheet),
                extract_number(text, units_of.weight),
                extract_number(text, units_of.volume),
                extract_number(text, units_of.value))

extract_route_from_text(text, sheet) ==
    IF ~Truthy(text) THEN NewRoute(None, None, None, None, sheet)
    ELSE IF route_extractor THEN ExtractWithExtractor(text, sheet)
    ELSE ExtractBuiltIn(text, sheet)

----------------------------------------------------------------------------
\* HorizontalTableParser._identify_structure, _get_cell, _extract_column_quote,
\* _parse_single_table

\* QuoteBlock(route, agent): the agent is its 代理商 field
NewQuote(r, agent) == [route |-> r, agent |-> agent]

\* _get_cell, for 0-based row_idx and col_idx
get_cell(table_data, row_idx, col_idx) ==
    IF row_idx < 0 \/ row_idx >= Len(table_data) THEN None
    ELSE LET row == table_data[row_idx + 1]
         IN IF col_idx < 0 \/ col_idx >= Len(row) THEN None
            ELSE IF \/ row[col_idx + 1] = None
                    \/ Strip(row[col_idx + 1]) \in {<<"NAN">>, <<"NONE">>, << >>}
                 THEN None
            ELSE Strip(row[col_idx + 1])

\* max(len(row) for row in table_data if row)
NumCols(table_data) == Max({Len(table_data[i]) : i \in 1..Len(table_data)})

\* the row at 0-based row_idx is taken as agent row by method 1 or method 2
IsAgentRow(table_data, row_idx) ==
    LET row == table_data[row_idx + 1]
        first_cell == IF row # << >> /\ Truthy(row[1]) THEN Strip(row[1]) ELSE << >>
    IN /\ row # << >>
       /\ \/ \E kw \in agent_keywords : IsSub(kw, first_cell)
          \/ /\ first_cell \in {<<"/">>, <<"-">>, << >>}
             /\ Len(row) > 1
             /\ \E col_idx \in 1..(Min({Len(row), 5}) - 1) :
                   LET cell == get_cell(table_data, row_idx, col_idx)
                   IN Truthy(cell) /\ CharLen(cell) > 1

\* structure['agent_row'], -1 for None
AgentRow(table_data) ==
    LET rows == {r \in 0..(Len(table_data) - 1) : IsAgentRow(table_data, r)}
    IN IF rows = {} THEN -1 ELSE Min(rows)

\* the Route(...) _extract_column_quote builds from base_route
ColumnRoute(base_route, sheet) ==
    [NewRoute(base_route.origin, base_route.destination, base_route.via,
              base_route.raw, sheet)
     EXCEPT !.remark = base_route.remark,
            !.actual_weight = base_route.actual_weight,
            !.billing_weight = base_route.billing_weight,
            !.volume = base_route.volume,
            !.value = base_route.value]

\* variant of _extract_column_quote that reads the agent cell of column 1 for
\* every column
extract_column_quote_first_col(table_data, col_idx, agent_row, base_route, sheet) ==
    LET r == ColumnRoute(base_route, sheet)
        agent_cell == IF agent_row # -1 THEN get_cell(table_data, agent_row, 1)
                      ELSE None
    IN IF Truthy(agent_cell) THEN <<NewQuote(r, agent_cell)>> ELSE << >>

\* variant of _extract_column_quote that keeps a column without agent
extract_column_quote_keep_empty(table_data, col_idx, agent_row, base_route, sheet) ==
    <<NewQuote(ColumnRoute(base_route, sheet),
               IF agent_row # -1 /\ Truthy(get_cell(table_data, agent_row, col_idx))
               THEN get_cell(table_data, agent_row, col_idx) ELSE << >>)>>

\* _extract_column_quote: << >> stands for the None it returns for a column
\* without agent, <<quote>> for a quote
extract_column_quote(table_data, col_idx, agent_row, base_route, sheet) ==
    LET r == ColumnRoute(base_route, sheet)
        agent_cell == IF agent_row # -1 THEN get_cell(table_data, agent_row, col_idx)
                      ELSE None
    IN IF Truthy(agent_cell) THEN <<NewQuote(r, agent_cell)>> ELSE << >>

RECURSIVE ColumnQuotes(_, _, _, _, _, _)
\* for col_idx in range(1, structure['num_cols'])
ColumnQuotes(table_data, col_idx, num_cols, agent_row, base_route, sheet) ==
    IF col_idx >= num_cols THEN << >>
    ELSE extract_column_quote(table_data, col_idx, agent_row, base_route, sheet)
         \o ColumnQuotes(table_data, col_idx + 1, num_cols, agent_row, base_route, sheet)

\* base_route after the sheet-name fallback; ok is FALSE where the method
\* returns [] for a route with neither end
\* the sheet-name fallback of _parse_single_table for the route of the header
\* and the route of the sheet name
WithSheetRoute(base_route, sheet_route, sheet) ==
    IF /\ ~Truthy(base_route.origin) \/ ~Truthy(base_route.destination)
       /\ Truthy(sheet)
       /\ Truthy(sheet_route.origin) /\ Truthy(sheet_route.destination)
    THEN [ok |-> TRUE, route |-> sheet_route]
    ELSE [ok |-> Truthy(base_route.origin) \/ Truthy(base_route.destination),
          route |-> base_route]

BaseRoute(route_text, sheet) ==
    WithSheetRoute(extract_route_from_text(route_text, sheet),
                   IF Truthy(sheet) THEN extract_route_from_text(sheet, sheet)
                   ELSE EmptyRoute,
                   sheet)

\* is_single_column for structure['agent_row'] = agent_row
IsSingleColumnAt(table_data, agent_row) ==
    IF NumCols(table_data) > 2 /\ agent_row # -1
    THEN ~(Len(table_data[agent_row + 1]) > 1
           /\ \E i \in 2..Len(table_data[agent_row + 1]) :
                 Truthy(table_data[agent_row + 1][i]))
    ELSE TRUE

\* is_single_column
IsSingleColumn(table_data) == IsSingleColumnAt(table_data, AgentRow(table_data))

\* the agent cell the single-column branch reads: column 1 after a keyword
\* cell, else column 0
SingleAgentCell(table_data, agent_row) ==
    IF agent_row = -1 THEN None
    ELSE IF Len(table_data[agent_row + 1]) >= 2
            /\ \E kw \in agent_keywords : IsSub(kw, table_data[agent_row + 1][1])
         THEN get_cell(table_data, agent_row, 1)
    ELSE get_cell(table_data, agent_row, 0)

\* the agent name for the cell read, with the defaults for an empty cell
AgentNameOf(agent_cell, sheet) ==
    IF Truthy(agent_cell) THEN agent_cell
    ELSE IF Truthy(sheet) THEN sheet \o <<"-", "SINGLE">>   \* f"{sheet_name}-单列报价"
    ELSE <<"UNLABELED">>                                     \* 未标注代理商

\* agent.代理商 of the single-column branch
SingleAgent(table_data, sheet) ==
    AgentNameOf(SingleAgentCell(table_data, AgentRow(table_data)), sheet)

\* the quotes of a table whose base route is `base`
QuotesForBase(table_data, base, sheet) ==
    IF ~base.ok THEN << >>
    ELSE IF IsSingleColumn(table_data)
         THEN IF Truthy(base.route.origin) /\ Truthy(base.route.destination)
              THEN <<NewQuote(base.route, SingleAgent(table_data, sheet))>>
              ELSE << >>
    ELSE ColumnQuotes(table_data, 1, NumCols(table_data), AgentRow(table_data),
                      base.route, sheet)

\* variant of _parse_single_table that also parses a table of one row
parse_single_table_one_row(table_data, route_text, sheet) ==
    IF table_data = << >> THEN << >>
    ELSE QuotesForBase(table_data, BaseRoute(route_text, sheet), sheet)

\* _parse_single_table(table_data, route_text, sheet_name)
parse_single_table(table_data, route_text, sheet) ==
    IF Len(table_data) < 2 THEN << >>
    ELSE QuotesForBase(table_data, BaseRoute(route_text, sheet), sheet)

\* variant of RouteIdsOf in which every quote holds base_route
RouteIdsShared(table_data, quotes) == [i \in 1..Len(quotes) |-> 0]

\* the Route object of each returned quote: base_route itself in the
\* single-column branch (route=base_route), the Route(...) built by the i-th
\* successful _extract_column_quote call otherwise
RouteIdsOf(table_data, quotes) ==
    IF IsSingleColumn(table_data) THEN [i \in 1..Len(quotes) |-> 0]
    ELSE [i \in 1..Len(quotes) |-> i]

----------------------------------------------------------------------------
\* HorizontalTableParser.parse_sheet

\* variant of the start of a call that keeps the signatures of the call before
SeenRoutesKept == seen_routes

\* seen_routes = set() at the start of a call
SeenRoutesAtStart == {}

RECURSIVE DedupQuotesKeepAll(_, _, _)
\* variant of the in-sheet deduplication that appends every quote
DedupQuotesKeepAll(quotes, acc, sheet) ==
    IF quotes = << >> THEN acc
    ELSE LET quote == Head(quotes)
             route_signature == get_route_signature(quote.route)
             content == Truthy(quote.route.raw) /\ quote.route.raw # sheet
         IN DedupQuotesKeepAll(Tail(quotes),
                [all_quotes |-> Append(acc.all_quotes, quote),
                 seen_routes |-> acc.seen_routes \cup {route_signature},
                 has_content_route |-> acc.has_content_route \/ content,
                 table_quotes |-> acc.table_quotes],
                sheet)

RECURSIVE DedupQuotesLastWins(_, _, _)
\* variant of the in-sheet deduplication in which a later quote replaces the
\* kept quote of the same signature
DedupQuotesLastWins(quotes, acc, sheet) ==
    IF quotes = << >> THEN acc
    ELSE LET quote == Head(quotes)
             route_signature == get_route_signature(quote.route)
             content == Truthy(quote.route.raw) /\ quote.route.raw # sheet
         IN DedupQuotesLastWins(Tail(quotes),
                [all_quotes |-> IF route_signature \notin acc.seen_routes
                                THEN Append(acc.all_quotes, quote)
                                ELSE [i \in DOMAIN acc.all_quotes |->
                                        IF get_route_signature(acc.all_quotes[i].route)
                                           = route_signature
                                        THEN quote ELSE acc.all_quotes[i]],
                 seen_routes |-> acc.seen_routes \cup {route_signature},
                 has_content_route |-> acc.has_content_route \/ content,
                 table_quotes |-> acc.table_quotes],
                sheet)

RECURSIVE DedupQuotes(_, _, _)
\* the loop `for quote in quotes` of the in-sheet deduplication, for the quotes
\* of one table; acc is [all_quotes, seen_routes, has_content_route, table_quotes]
DedupQuotes(quotes, acc, sheet) ==
    IF quotes = << >> THEN acc
    ELSE LET quote == Head(quotes)
             route_signature == get_route_signature(quote.route)
             content == Truthy(quote.route.raw) /\ quote.route.raw # sheet
         IN DedupQuotes(Tail(quotes),
                [all_quotes |-> IF route_signature \notin acc.seen_routes
                                THEN Append(acc.all_quotes, quote)
                                ELSE acc.all_quotes,
                 seen_routes |-> acc.seen_routes \cup {route_signature},
                 has_content_route |-> acc.has_content_route \/ content,
                 table_quotes |-> acc.table_quotes],
                sheet)

\* the body of the loop over table_boundaries for one table: its quotes are
\* recorded and deduplicated into acc
AddTableQuotes(quotes, acc, sheet) ==
    DedupQuotes(quotes, [acc EXCEPT !.table_quotes = Append(@, quotes)], sheet)

\* table_data = sheet_data[start_row:end_row + 1] and its quotes, for the span b
SpanQuotes(sheet_rows, b, sheet) ==
    parse_single_table(SubSeq(sheet_rows, b[1] + 1, b[2] + 1), b[3], sheet)

RECURSIVE ParseTables(_, _, _, _, _)
\* the loop over table_boundaries, from the table with index table_idx on
ParseTables(sheet_rows, boundaries, table_idx, acc, sheet) ==
    IF table_idx > Len(boundaries) THEN acc
    ELSE ParseTables(sheet_rows, boundaries, table_idx + 1,
                     AddTableQuotes(SpanQuotes(sheet_rows, boundaries[table_idx], sheet),
                                    acc, sheet),
                     sheet)

\* variant of QuotesOrSheetRoute that adds the quote of the sheet name to the
\* quotes of the tables
QuotesOrSheetRouteAlways(acc, sheet_route, sheet) ==
    IF /\ Truthy(sheet)
       /\ Truthy(sheet_route.origin) /\ Truthy(sheet_route.destination)
    THEN Append(acc.all_quotes, NewQuote(sheet_route, sheet \o <<"-", "SHEETNAME">>))
    ELSE acc.all_quotes

\* the quote built from the route of the sheet name when the tables gave
\* nothing
QuotesOrSheetRoute(acc, sheet_route, sheet) ==
    IF /\ acc.all_quotes = << >> /\ ~acc.has_content_route /\ Truthy(sheet)
       /\ Truthy(sheet_route.origin) /\ Truthy(sheet_route.destination)
    THEN <<NewQuote(sheet_route, sheet \o <<"-", "SHEETNAME">>)>>   \* -sheet名提取
    ELSE acc.all_quotes

SheetNameQuotes(acc, sheet) ==
    QuotesOrSheetRoute(acc, extract_route_from_text(sheet, sheet), sheet)

\* what parse_sheet leaves behind once the loop over the tables ended with acc
SheetResult(acc, boundaries, sheet) ==
    [all_quotes |-> SheetNameQuotes(acc, sheet), seen_routes |-> acc.seen_routes,
     table_quotes |-> acc.table_quotes, table_boundaries |-> boundaries]

\* parse_sheet from the loop over table_boundaries on
ParseSpans(sheet_rows, boundaries, sheet) ==
    SheetResult(ParseTables(sheet_rows, boundaries, 1,
                            [all_quotes |-> << >>, seen_routes |-> SeenRoutesAtStart,
                             has_content_route |-> FALSE, table_quotes |-> << >>],
                            sheet),
                boundaries, sheet)

\* parse_sheet(sheet_rows, sheet): the returned list, with the spans, the local
\* seen_routes and the per-table lists as they are on return
parse_sheet(sheet_rows, sheet) ==
    IF sheet_rows = << >>
    THEN [all_quotes |-> << >>, seen_routes |-> {}, table_quotes |-> << >>,
          table_boundaries |-> << >>]
    ELSE ParseSpans(sheet_rows, find_table_boundaries(sheet_rows), sheet)

----------------------------------------------------------------------------
\* The records parse_sheet hands to the attached DebugLogger

RECURSIVE LogTables(_, _, _)
\* the log_block calls of the loop over table_boundaries, from the table with
\* index table_idx on: one "success" record per quote of the table, or one
\* "failed" record with the reason 解析失败（route不完整或无代理商） for a table
\* without quotes
LogTables(boundaries, quotes_of, table_idx) ==
    IF table_idx > Len(boundaries) THEN << >>
    ELSE LET quotes == quotes_of[table_idx]
             row_range == <<boundaries[table_idx][1], boundaries[table_idx][2]>>
         IN (IF quotes # << >>
             THEN [k \in 1..Len(quotes) |->
                     [block_index |-> table_idx - 1, status |-> "success",
                      reason |-> None,
                      extracted |-> <<quotes[k].route.origin,
                                      quotes[k].route.destination, quotes[k].agent>>,
                      row_range |-> row_range]]
             ELSE <<[block_index |-> table_idx - 1, status |-> "failed",
                     reason |-> <<"PARSE_FAILED">>, extracted |-> << >>,
                     row_range |-> row_range]>>)
            \o LogTables(boundaries, quotes_of, table_idx + 1)

\* the records of one parse_sheet call that returned result: the one "skipped"
\* record with the reason sheet数据为空 for an empty sheet, else the records of
\* the tables
parse_sheet_blocks(sheet_rows, result) ==
    IF sheet_rows = << >>
    THEN <<[block_index |-> 0, status |-> "skipped", reason |-> <<"EMPTY_SHEET">>,
            extracted |-> << >>, row_range |-> None]>>
    ELSE LogTables(result.table_boundaries, result.table_quotes, 1)

----------------------------------------------------------------------------
\* The parser at work: parse_sheet called on one sheet under several names

\* largest number of rows of a parsed sheet
MaxRows == 4

\* rows of the parsed sheets
SheetRows ==
    {<< <<"SZ", "-", "MY", "XY">> >>,                 \* 深圳-马来西亚
     << <<"SZ", "-", "MY">> >>,                       \* 深圳-马来
     << <<"SZ", "-", "HK">> >>,                       \* 深圳-香港
     << <<"SZ", "-", "MARS">> >>,                     \* 深圳-火星
     << <<"AGT">>, <<"RX">>, <<"YSD">>, <<"DF">> >>,  \* 代理 | 融迅 | 银顺达 | 东方
     << <<"AGT">>, <<"RX">> >>}                       \* 代理 | 融迅

Sheets == UNION {[1..n -> SheetRows] : n \in 0..MaxRows}

\* sheet names: 订单1, 深圳, 深圳-马来
SheetNames == {<<"ORD1">>, <<"SZ">>, <<"SZ", "-", "MY">>}

Init ==
    /\ sheet_data \in Sheets
    /\ route_extractor = TRUE
    /\ table_boundaries = << >>
    /\ sheet_name = None
    /\ all_quotes = << >>
    /\ seen_routes = {}
    /\ table_quotes = << >>
    /\ prev_sheet_name = None
    /\ prev_quotes = << >>
    /\ text_in = None
    /\ name_in = None
    /\ route = EmptyRoute
    /\ route_ids = << >>
    /\ out = << >>
    /\ debug_blocks = << >>
    /\ routes = << >>
    /\ route_agents = << >>
    /\ route_id = 1
    /\ agent_route_id = 1
    /\ route_key_to_id = << >>
    /\ filename = 0
    /\ block_idx = 1
    /\ history = [blocks |-> << >>, sheets |-> 0, names |-> {}, failed |-> << >>]
    /\ pc = "init"

\* parser.parse_sheet(sheet_data, sheet)
ParseSheet(sheet) ==
    LET result == parse_sheet(sheet_data, sheet)
    IN /\ sheet_name' = sheet
       /\ all_quotes' = result.all_quotes
       /\ seen_routes' = result.seen_routes
       /\ table_quotes' = result.table_quotes
       /\ table_boundaries' = result.table_boundaries
       /\ prev_sheet_name' = sheet_name
       /\ prev_quotes' = all_quotes
       /\ debug_blocks' = parse_sheet_blocks(sheet_data, result)
       /\ pc' = "parsed"
       /\ UNCHANGED <<out, routes, route_agents, route_id, agent_route_id, route_key_to_id,
                      filename, block_idx, history, route_ids, sheet_data,
                      route_extractor, text_in, name_in, route>>

Next == \E sheet \in SheetNames : ParseSheet(sheet)

Spec == Init /\ [][Next]_vars

----------------------------------------------------------------------------
\* Properties of parse_sheet

\* the spans of the last scan and the rows of the sheet
SpanStart(i) == table_boundaries[i][1]
SpanEnd(i) == table_boundaries[i][2]
SpanText(i) == table_boundaries[i][3]
NumSpans == Len(table_boundaries)
NumRows == Len(sheet_data)

RECURSIVE Flatten(_)
\* the lists of a list of lists, concatenated
Flatten(lists) == IF lists = << >> THEN << >> ELSE Head(lists) \o Flatten(Tail(lists))

\* the quotes the tables of the last call produced, in processing order
Candidates == Flatten(table_quotes)

Sig(q) == get_route_signature(q.route)

\* 0-based index of the agent row of the only table, -1 when there is none
OnlyTableAgentRow == AgentRow(SubSeq(sheet_data, SpanStart(1) + 1, SpanEnd(1) + 1))

\* the last call parsed a sheet with exactly one table whose header resolves
\* both ends and whose agent row has three different names in columns 1, 2, 3
ThreeAgentTable ==
    /\ pc = "parsed"
    /\ NumSpans = 1
    /\ OnlyTableAgentRow # -1
    /\ LET agents == sheet_data[SpanStart(1) + OnlyTableAgentRow + 1]
           base == BaseRoute(SpanText(1), sheet_name)
       IN /\ Len(agents) = 4
          /\ \A c \in 2..4 : Truthy(agents[c])
          /\ Cardinality({agents[c] : c \in 2..4}) = 3
          /\ NumCols(SubSeq(sheet_data, SpanStart(1) + 1, SpanEnd(1) + 1)) = 4
          /\ base.ok /\ Truthy(base.route.origin) /\ Truthy(base.route.destination)

\* the quotes of a list share origin, destination and via
SameRoute(quotes) ==
    \A i, j \in 1..Len(quotes) :
        /\ quotes[i].route.origin = quotes[j].route.origin
        /\ quotes[i].route.destination = quotes[j].route.destination
        /\ quotes[i].route.via = quotes[j].route.via

RECURSIVE FirstOccurrences(_, _)
FirstOccurrences(cands, i) ==
    IF i > Len(cands) THEN << >>
    ELSE (IF \A j \in 1..(i - 1) : Sig(cands[j]) # Sig(cands[i])
          THEN <<cands[i]>> ELSE << >>)
         \o FirstOccurrences(cands, i + 1)

C4_DedupScopedToCall ==
    (pc = "parsed" /\ prev_sheet_name # None /\ prev_sheet_name # sheet_name) =>
        /\ \A i \in 1..Len(all_quotes) : all_quotes[i].route.sheet = sheet_name
        /\ \A i \in 1..Len(prev_quotes) : prev_quotes[i].route.sheet = prev_sheet_name
        /\ \A i \in 1..Len(Candidates) :
              \E k \in 1..Len(all_quotes) : Sig(all_quotes[k]) = Sig(Candidates[i])
        /\ seen_routes = {Sig(Candidates[i]) : i \in 1..Len(Candidates)}

\* the same rows gave a quote under two different names
C4_Witness ==
    /\ pc = "parsed"
    /\ prev_sheet_name # None /\ prev_sheet_name # sheet_name
    /\ prev_quotes # << >> /\ all_quotes # << >>
    /\ Sig(prev_quotes[1]) = Sig(all_quotes[1])

\* C5: every returned quote has origin and destination.
C5_BothEndsResolved ==
    pc = "parsed" =>
        \A i \in 1..Len(all_quotes) :
            Truthy(all_quotes[i].route.origin) /\ Truthy(all_quotes[i].route.destination)

----------------------------------------------------------------------------
\* Boundary scan on its own: _find_table_boundaries applied to one sheet

\* largest number of rows of a scanned sheet
MaxScanRows == 3

\* first cells of the scanned rows
BoundaryCells ==
    {<<"SZ", "-", "MY">>,                      \* 深圳-马来
     <<"SZ", "-", "MY", ":">>,                 \* 深圳-马来：
     <<"HJ", "SZ", "-", "MY", ":">>,           \* 货交深圳-马来：
     <<"SZ", "-", "MY", "FEE">>,               \* 深圳-马来费用
     <<"SZ", "-", "MARS">>,                    \* 深圳-火星
     <<"SZ", "-", "MY", Space, "N81">>,        \* 深圳-马来 000...0 (87 characters)
     <<"SZ", "-", "MY", "|", "N81", "N81">>,   \* 深圳-马来|000...0 (168 characters)
     <<"SZ", "-", "MY", "N81", "N81">>,        \* 深圳-马来000...0 (167 characters)
     <<"AGT">>,                                \* 代理
     <<"/">>,                                  \* /
     <<"FEE">>,                                \* 费用
     << >>}                                    \* empty cell

BoundaryRows == {<<c>> : c \in BoundaryCells} \cup {<< >>}

BoundarySheets == UNION {[1..n -> BoundaryRows] : n \in 0..MaxScanRows}

InitScan ==
    /\ sheet_data \in BoundarySheets
    /\ route_extractor = TRUE
    /\ table_boundaries = << >>
    /\ sheet_name = None
    /\ all_quotes = << >>
    /\ seen_routes = {}
    /\ table_quotes = << >>
    /\ prev_sheet_name = None
    /\ prev_quotes = << >>
    /\ text_in = None
    /\ name_in = None
    /\ route = EmptyRoute
    /\ route_ids = << >>
    /\ out = << >>
    /\ debug_blocks = << >>
    /\ routes = << >>
    /\ route_agents = << >>
    /\ route_id = 1
    /\ agent_route_id = 1
    /\ route_key_to_id = << >>
    /\ filename = 0
    /\ block_idx = 1
    /\ history = [blocks |-> << >>, sheets |-> 0, names |-> {}, failed |-> << >>]
    /\ pc = "init"

\* parser._find_table_boundaries(sheet_data)
FindTableBoundaries ==
    /\ pc = "init"
    /\ table_boundaries' = find_table_boundaries(sheet_data)
    /\ pc' = "scanned"
    /\ UNCHANGED <<out, runnerVars, route_ids, sheet_data, route_extractor, sheet_name, all_quotes, seen_routes,
                   table_quotes, prev_sheet_name, prev_quotes, text_in, name_in, route>>

NextScan == FindTableBoundaries

SpecScan == InitScan /\ [][NextScan]_vars

----------------------------------------------------------------------------
\* Properties of the boundary scan

\* 0-based indices of the rows the loop accepts as table title
TitleRows == {r \in 0..(NumRows - 1) : is_valid_title(sheet_data, r)}

\* C7: the spans are in ascending row order, each inside the sheet, each ends
\* right before the next one starts, the last one ends at the last row, each
\* carries the stripped first cell of its start row, and when the loop accepted
\* any title the span starts are exactly the accepted title rows.
C7_SpansContiguous ==
    pc = "scanned" =>
        /\ \A i \in 1..NumSpans :
              /\ 0 <= SpanStart(i) /\ SpanStart(i) <= SpanEnd(i) /\ SpanEnd(i) < NumRows
              /\ SpanText(i) = Strip(sheet_data[SpanStart(i) + 1][1])
              /\ i < NumSpans => SpanEnd(i) = SpanStart(i + 1) - 1
              /\ i = NumSpans => SpanEnd(i) = NumRows - 1
        /\ TitleRows # {} => {SpanStart(i) : i \in 1..NumSpans} = TitleRows
        /\ TitleRows = {} => NumSpans <= 1 /\ \A i \in 1..NumSpans : SpanStart(i) = 0

\* a scan that produced two spans or more, the first one not at row 0
C7_Witness == pc = "scanned" /\ NumSpans >= 2 /\ SpanStart(1) > 0

\* C8: a span whose title has a colon and does not start with 货交 is followed
\* by an agent row.
C8_ColonTitleNeedsAgentRow ==
    pc = "scanned" =>
        \A i \in 1..NumSpans :
            (HasColon(SpanText(i)) /\ ~StartsWith(SpanText(i), <<"HJ">>))
                => next_row_is_agent(sheet_data, SpanStart(i))

\* not_route_keywords of BlockSplitter.is_route_line, the entries that can be
\* written with the atoms
not_route_keywords == {<<"FEE">>}

\* C9: no span starts at a row whose first cell contains a not-a-route keyword.
C9_KeywordRowNeverTitle ==
    pc = "scanned" =>
        \A i \in 1..NumSpans :
            ~\E kw \in not_route_keywords : IsSub(kw, SpanText(i))

\* C10 as stated: no span has a title longer than 80 characters.
C10_NoLongTitle ==
    pc = "scanned" => \A i \in 1..NumSpans : CharLen(SpanText(i)) <= 80

\* C10 amended: a span with a title longer than 80 characters is the single
\* whole-sheet span of the first-row strategy, and the part of its title before
\* the first bar is shorter than 100 characters.
C10_LongTitleOnlyFirstRow ==
    pc = "scanned" =>
        \A i \in 1..NumSpans :
            CharLen(SpanText(i)) > 80 =>
                /\ NumSpans = 1
                /\ SpanStart(i) = 0 /\ SpanEnd(i) = NumRows - 1
                /\ CharLen(Strip(Split(SpanText(i), <<"|">>)[1])) < 100

\* a sheet with a span, and a later row of more than 80 characters that rule 3
\* would take as title, which starts no span
C10_Witness ==
    /\ pc = "scanned"
    /\ NumSpans >= 1
    /\ \E r \in 1..(NumRows - 1) :
          /\ ~RowSkipped(sheet_data[r + 1])
          /\ CharLen(FirstCell(sheet_data[r + 1])) > 80
          /\ Rule3(FirstCell(sheet_data[r + 1]))
          /\ \A i \in 1..NumSpans : SpanStart(i) # r

\* the stripped first cell of row 0, << >> for an empty row
FirstRowText == IF sheet_data[1] = << >> THEN << >> ELSE Strip(sheet_data[1][1])

\* the part of FirstRowText before the first bar
FirstRowRoutePart ==
    IF IsSub(<<"|">>, FirstRowText) THEN Strip(Split(FirstRowText, <<"|">>)[1])
    ELSE FirstRowText

\* C11 as stated: when the loop accepted no title in a non-empty sheet, the
\* result is the single span (0, last row, first cell of row 0) if the text of
\* the first row satisfies the route pattern and no span otherwise; when the
\* loop accepted a title, the spans start at the accepted titles.
C11_FallbackIffPattern ==
    (pc = "scanned" /\ NumRows > 0) =>
        /\ TitleRows = {} =>
              table_boundaries =
                  IF route_pattern_search(FirstRowText).ok
                  THEN << <<0, NumRows - 1, FirstRowText>> >>
                  ELSE << >>
        /\ TitleRows # {} => {SpanStart(i) : i \in 1..NumSpans} = TitleRows

\* C11 amended: when the loop accepted no title in a non-empty sheet, the
\* result is the single span (0, last row, first cell of row 0) if the part of
\* the first cell before the first bar is non-empty, shorter than 100
\* characters and satisfies the route pattern, and no span otherwise; when the
\* loop accepted a title, the spans start at the accepted titles.
C11_FallbackIffShortRoutePart ==
    (pc = "scanned" /\ NumRows > 0) =>
        /\ TitleRows = {} =>
              table_boundaries =
                  IF /\ FirstRowRoutePart # << >>
                     /\ CharLen(FirstRowRoutePart) < 100
                     /\ route_pattern_search(FirstRowRoutePart).ok
                  THEN << <<0, NumRows - 1, FirstRowText>> >>
                  ELSE << >>
        /\ TitleRows # {} => {SpanStart(i) : i \in 1..NumSpans} = TitleRows

\* a sheet of two rows or more without accepted title whose first row gave the
\* whole-sheet span
C11_Witness ==
    /\ pc = "scanned" /\ NumRows >= 2 /\ TitleRows = {}
    /\ table_boundaries = << <<0, NumRows - 1, FirstRowText>> >>

----------------------------------------------------------------------------
\* Route extraction on its own: _extract_route_from_text applied to one text

\* largest number of segments of an extracted text
MaxSegments == 3

\* segments of the extracted texts: 深圳, 新加坡, 英国, 火星
Segments == {"SZ", "SG", "UK", "MARS"}

RECURSIVE Join(_, _)
\* sep.join(segs)
Join(segs, sep) ==
    IF Len(segs) = 1 THEN <<segs[1]>>
    ELSE <<segs[1], sep>> \o Join(Tail(segs), sep)

\* texts of 1..MaxSegments segments joined by "-" or by "－"; the empty text, a
\* colon, and texts with a weight: 5KG, |5KG, 深圳-新加坡 5KG, 深圳-新加坡 0KG,
\* 深圳-新加坡|5KG
RouteTexts ==
    {Join(segs, sep) : segs \in UNION {[1..n -> Segments] : n \in 1..MaxSegments},
                       sep \in {"-", "FW"}}
    \cup {<< >>, <<":">>, <<"5", "KG">>, <<"|", "5", "KG">>,
          <<"SZ", "-", "SG", Space, "5", "KG">>,
          <<"SZ", "-", "SG", Space, "0", "KG">>,
          <<"SZ", "-", "SG", "|", "5", "KG">>}

\* sheet_name arguments: None, 订单1, 深圳, 深圳专线
ExtractNames == {None, <<"ORD1">>, <<"SZ">>, <<"SZ", "ZX">>}

InitExtract ==
    /\ sheet_data = << >>
    /\ route_extractor \in BOOLEAN
    /\ table_boundaries = << >>
    /\ sheet_name = None
    /\ all_quotes = << >>
    /\ seen_routes = {}
    /\ table_quotes = << >>
    /\ prev_sheet_name = None
    /\ prev_quotes = << >>
    /\ text_in = None
    /\ name_in = None
    /\ route = EmptyRoute
    /\ route_ids = << >>
    /\ out = << >>
    /\ debug_blocks = << >>
    /\ routes = << >>
    /\ route_agents = << >>
    /\ route_id = 1
    /\ agent_route_id = 1
    /\ route_key_to_id = << >>
    /\ filename = 0
    /\ block_idx = 1
    /\ history = [blocks |-> << >>, sheets |-> 0, names |-> {}, failed |-> << >>]
    /\ pc = "init"

\* parser._extract_route_from_text(text, sheet)
ExtractRouteFromText(text, sheet) ==
    /\ pc = "init"
    /\ text_in' = text
    /\ name_in' = sheet
    /\ route' = extract_route_from_text(text, sheet)
    /\ pc' = "extracted"
    /\ UNCHANGED <<out, runnerVars, route_ids, sheet_data, route_extractor, table_boundaries, sheet_name, all_quotes,
                   seen_routes, table_quotes, prev_sheet_name, prev_quotes>>

NextExtract == \E text \in RouteTexts, sheet \in ExtractNames : ExtractRouteFromText(text, sheet)

SpecExtract == InitExtract /\ [][NextExtract]_vars

\* the separators a three-segment text can use on the path in use: with the
\* extractor "-" (regex) and "－" (manual split), without it "-" (built-in)
PathSeparators == IF route_extractor THEN {"-", "FW"} ELSE {"-"}

\* C6: a text A-sep-B-sep-C of three valid locations is extracted as origin A,
\* via B, destination C, on the regex path, the manual split and the built-in
\* branch.
C6_ThreeSegmentOrder ==
    pc = "extracted" =>
        \A A, B, C \in {a \in Segments : is_valid_location(<<a>>)}, sep \in PathSeparators :
            text_in = <<A, sep, B, sep, C>> =>
                /\ route.origin = <<A>>
                /\ route.via = <<B>>
                /\ route.destination = <<C>>

----------------------------------------------------------------------------
\* HorizontalParserRunner (scripts/dryrun_horizontal_parser.py)

\* Route.get_unique_key: f"{起始地}|{目的地}|{途径地}|{_sheet_name}", where
\* f"{x}" of None is the text None
get_unique_key(r) ==
    LET Str(x) == IF x = None THEN <<"NONE">> ELSE x
    IN  Str(r.origin) \o <<"|">> \o Str(r.destination) \o <<"|">> \o Str(r.via)
        \o <<"|">> \o Str(r.sheet)

\* self.routes after _add_route appended the record of r under the id
add_route(rs, id, r) ==
    Append(rs, [route_id |-> id, origin |-> r.origin, destination |-> r.destination,
                via |-> r.via])

\* self.route_agents after _add_route_agent appended the record of the agent
add_route_agent(ras, id, rid, agent) ==
    Append(ras, [agent_route_id |-> id, route_id |-> rid, agent |-> agent])

\* largest number of files and of sheets of a run
MaxFiles == 2
MaxSheets == 3

\* sheets of the processed files: 深圳-马来 with the agents 融迅 and 银顺达; 深圳-马来
\* with agent 融迅 followed by 深圳-香港 with agent 银顺达; a sheet without a route
RunnerSheets ==
    {<< << <<"SZ", "-", "MY">> >>, << <<"AGT">>, <<"RX">>, <<"YSD">> >> >>,
     << << <<"SZ", "-", "MY">> >>, << <<"AGT">>, <<"RX">> >>,
        << <<"SZ", "-", "HK">> >>, << <<"AGT">>, <<"YSD">> >> >>,
     << << <<"FEE">> >> >>}

InitRun ==
    /\ sheet_data = << >>
    /\ route_extractor = TRUE
    /\ table_boundaries = << >>
    /\ sheet_name = None
    /\ all_quotes = << >>
    /\ seen_routes = {}
    /\ table_quotes = << >>
    /\ prev_sheet_name = None
    /\ prev_quotes = << >>
    /\ text_in = None
    /\ name_in = None
    /\ route = EmptyRoute
    /\ route_ids = << >>
    /\ out = << >>
    /\ debug_blocks = << >>
    /\ routes = << >>
    /\ route_agents = << >>
    /\ route_id = 1
    /\ agent_route_id = 1
    /\ route_key_to_id = << >>
    /\ filename = 0
    /\ block_idx = 1
    /\ history = [blocks |-> << >>, sheets |-> 0, names |-> {}, failed |-> << >>]
    /\ pc = "init"

\* variant of ProcessFile that restarts the route ids with the raw-key map
ProcessFileResetIds ==
    /\ pc # "raised"
    /\ block_idx > Len(all_quotes)
    /\ filename < MaxFiles
    /\ filename' = filename + 1
    /\ route_key_to_id' = << >>
    /\ route_id' = 1
    /\ history' = [history EXCEPT !.names = {}]
    /\ pc' = "file"
    /\ UNCHANGED <<out, debug_blocks, routes, route_agents, agent_route_id, block_idx,
                   sheet_data, route_extractor, table_boundaries, sheet_name, all_quotes,
                   seen_routes, table_quotes, prev_sheet_name, prev_quotes, text_in,
                   name_in, route, route_ids>>

\* variant of ProcessFile that keeps route_key_to_id
ProcessFileKeepMap ==
    /\ block_idx > Len(all_quotes)
    /\ filename < MaxFiles
    /\ filename' = filename + 1
    /\ history' = [history EXCEPT !.names = {}]
    /\ pc' = "file"
    /\ UNCHANGED <<out, debug_blocks, route_key_to_id, routes, route_agents, route_id, agent_route_id,
                   block_idx,
                   sheet_data, route_extractor, table_boundaries, sheet_name, all_quotes,
                   seen_routes, table_quotes, prev_sheet_name, prev_quotes, text_in,
                   name_in, route, route_ids>>

\* _process_file up to its loop over the sheets: the next file starts once the
\* sheets of the file before are done, and the raw-key map is reset; run()
\* re-raises an exception that reaches it, after which nothing runs (pc "raised")
ProcessFile ==
    /\ pc # "raised"
    /\ block_idx > Len(all_quotes)
    /\ filename < MaxFiles
    /\ filename' = filename + 1
    /\ route_key_to_id' = << >>
    /\ history' = [history EXCEPT !.names = {}]
    /\ pc' = "file"
    /\ UNCHANGED <<out, debug_blocks, routes, route_agents, route_id, agent_route_id, block_idx,
                   sheet_data, route_extractor, table_boundaries, sheet_name, all_quotes,
                   seen_routes, table_quotes, prev_sheet_name, prev_quotes, text_in,
                   name_in, route, route_ids>>

\* variant of ProcessSheet in which a file holds a sheet name more than once
ProcessSheetAnyName(rows, sheet, result) ==
    /\ pc # "raised"
    /\ filename >= 1
    /\ block_idx > Len(all_quotes)
    /\ history.sheets < MaxSheets
    /\ debug_blocks' = parse_sheet_blocks(rows, result)
    /\ sheet_data' = rows
    /\ sheet_name' = sheet
    /\ all_quotes' = result.all_quotes
    /\ seen_routes' = result.seen_routes
    /\ table_quotes' = result.table_quotes
    /\ table_boundaries' = result.table_boundaries
    /\ prev_sheet_name' = sheet_name
    /\ prev_quotes' = all_quotes
    /\ block_idx' = 1
    /\ history' = [history EXCEPT !.sheets = @ + 1, !.names = @ \cup {sheet}]
    /\ pc' = "sheet"
    /\ UNCHANGED <<out, routes, route_agents, route_id, agent_route_id, route_key_to_id,
                   filename, route_extractor, text_in, name_in, route, route_ids>>

\* _process_sheet(sheet, rows) up to its loop over quote_blocks, result being
\* what parse_sheet returns; the sheets of a file come from a dict keyed by
\* sheet name, so a name occurs once per file
ProcessSheet(rows, sheet, result) ==
    /\ pc # "raised"
    /\ filename >= 1
    /\ block_idx > Len(all_quotes)
    /\ history.sheets < MaxSheets
    /\ debug_blocks' = parse_sheet_blocks(rows, result)
    /\ sheet \notin history.names
    /\ sheet_data' = rows
    /\ sheet_name' = sheet
    /\ all_quotes' = result.all_quotes
    /\ seen_routes' = result.seen_routes
    /\ table_quotes' = result.table_quotes
    /\ table_boundaries' = result.table_boundaries
    /\ prev_sheet_name' = sheet_name
    /\ prev_quotes' = all_quotes
    /\ block_idx' = 1
    /\ history' = [history EXCEPT !.sheets = @ + 1, !.names = @ \cup {sheet}]
    /\ pc' = "sheet"
    /\ UNCHANGED <<out, routes, route_agents, route_id, agent_route_id, route_key_to_id,
                   filename, route_extractor, text_in, name_in, route, route_ids>>

\* variant of ProcessQuoteBlock that looks the route up in self.routes instead
\* of route_key_to_id
ProcessQuoteBlockReuseStored(quote_block, route_key) ==
    /\ filename >= 1
    /\ block_idx <= Len(all_quotes)
    /\ IF \E k \in 1..Len(routes) : routes[k].origin = quote_block.route.origin
                                     /\ routes[k].destination = quote_block.route.destination
                                     /\ routes[k].via = quote_block.route.via
       THEN /\ route_agents' =
                  add_route_agent(route_agents, agent_route_id,
                      Min({routes[k].route_id : k \in
                              {n \in 1..Len(routes) :
                                  /\ routes[n].origin = quote_block.route.origin
                                  /\ routes[n].destination = quote_block.route.destination
                                  /\ routes[n].via = quote_block.route.via}}),
                      quote_block.agent)
            /\ UNCHANGED <<routes, route_id, route_key_to_id>>
       ELSE /\ routes' = add_route(routes, route_id, quote_block.route)
            /\ route_id' = route_id + 1
            /\ route_key_to_id' = (route_key :> route_id) @@ route_key_to_id
            /\ route_agents' = add_route_agent(route_agents, agent_route_id, route_id,
                                               quote_block.agent)
    /\ agent_route_id' = agent_route_id + 1
    /\ block_idx' = block_idx + 1
    /\ history' = [history EXCEPT
                      !.blocks = Append(@, [file |-> filename, block |-> quote_block])]
    /\ pc' = "block"
    /\ UNCHANGED <<out, debug_blocks, filename, sheet_data, route_extractor, table_boundaries, sheet_name,
                   all_quotes, seen_routes, table_quotes, prev_sheet_name, prev_quotes,
                   text_in, name_in, route, route_ids>>

\* variant of ProcessQuoteBlock that adds a route record for every block
ProcessQuoteBlockAlwaysAdd(quote_block, route_key) ==
    /\ filename >= 1
    /\ block_idx <= Len(all_quotes)
    /\ routes' = add_route(routes, route_id, quote_block.route)
    /\ route_id' = route_id + 1
    /\ route_key_to_id' = (route_key :> route_id) @@ route_key_to_id
    /\ route_agents' = add_route_agent(route_agents, agent_route_id, route_id,
                                       quote_block.agent)
    /\ agent_route_id' = agent_route_id + 1
    /\ block_idx' = block_idx + 1
    /\ history' = [history EXCEPT
                      !.blocks = Append(@, [file |-> filename, block |-> quote_block])]
    /\ pc' = "block"
    /\ UNCHANGED <<out, debug_blocks, filename, sheet_data, route_extractor, table_boundaries, sheet_name,
                   all_quotes, seen_routes, table_quotes, prev_sheet_name, prev_quotes,
                   text_in, name_in, route, route_ids>>

\* _process_quote_block(quote_block), route_key being its raw key: one turn of
\* the loop of _process_sheet
ProcessQuoteBlock(quote_block, route_key) ==
    /\ pc # "raised"
    /\ filename >= 1
    /\ block_idx <= Len(all_quotes)
    /\ IF route_key \in DOMAIN route_key_to_id
       THEN /\ route_agents' = add_route_agent(route_agents, agent_route_id,
                                               route_key_to_id[route_key],
                                               quote_block.agent)
            /\ UNCHANGED <<routes, route_id, route_key_to_id>>
       ELSE /\ routes' = add_route(routes, route_id, quote_block.route)
            /\ route_id' = route_id + 1
            /\ route_key_to_id' = (route_key :> route_id) @@ route_key_to_id
            /\ route_agents' = add_route_agent(route_agents, agent_route_id, route_id,
                                               quote_block.agent)
    /\ agent_route_id' = agent_route_id + 1
    /\ block_idx' = block_idx + 1
    /\ history' = [history EXCEPT
                      !.blocks = Append(@, [file |-> filename, block |-> quote_block])]
    /\ pc' = "block"
    /\ UNCHANGED <<out, debug_blocks, filename, sheet_data, route_extractor, table_boundaries, sheet_name,
                   all_quotes, seen_routes, table_quotes, prev_sheet_name, prev_quotes,
                   text_in, name_in, route, route_ids>>

NextRun ==
    \/ ProcessFile
    \/ \E rows \in RunnerSheets, sheet \in {<<"ORD1">>, <<"ORD2">>} :
          ProcessSheet(rows, sheet, parse_sheet(rows, sheet))
    \/ /\ block_idx <= Len(all_quotes)
       /\ ProcessQuoteBlock(all_quotes[block_idx],
                            get_unique_key(all_quotes[block_idx].route))

SpecRun == InitRun /\ [][NextRun]_vars

----------------------------------------------------------------------------
\* HorizontalParserRunner with failures: an exception raised inside the try of
\* _process_sheet or of _process_quote_block

\* variant of ProcessSheetFails in which the exception leaves _process_sheet
\* and _process_file and reaches run()
ProcessSheetFailsRaises(rows, sheet) ==
    /\ pc # "raised"
    /\ filename >= 1
    /\ block_idx > Len(all_quotes)
    /\ history.sheets < MaxSheets
    /\ sheet \notin history.names
    /\ sheet_data' = rows
    /\ sheet_name' = sheet
    /\ pc' = "raised"
    /\ UNCHANGED <<out, debug_blocks, routes, route_agents, route_id, agent_route_id, route_key_to_id,
                   filename, route_extractor, text_in, name_in, route, route_ids,
                   all_quotes, seen_routes, table_quotes, table_boundaries,
                   prev_sheet_name, prev_quotes, block_idx, history>>

\* _process_sheet(sheet, rows) when scan_sheet or detect_goods_table raises,
\* before parse_sheet is called: `except Exception` logs the error, no quote
\* block is processed
ProcessSheetFails(rows, sheet) ==
    /\ pc # "raised"
    /\ filename >= 1
    /\ block_idx > Len(all_quotes)
    /\ history.sheets < MaxSheets
    /\ sheet \notin history.names
    /\ sheet_data' = rows
    /\ sheet_name' = sheet
    /\ debug_blocks' = << >>
    /\ all_quotes' = << >>
    /\ seen_routes' = {}
    /\ table_quotes' = << >>
    /\ table_boundaries' = << >>
    /\ prev_sheet_name' = sheet_name
    /\ prev_quotes' = all_quotes
    /\ block_idx' = 1
    /\ history' = [history EXCEPT !.sheets = @ + 1, !.names = @ \cup {sheet},
                                  !.failed = Append(@, [file |-> filename,
                                                        step |-> "sheet"])]
    /\ pc' = "sheet_failed"
    /\ UNCHANGED <<out, routes, route_agents, route_id, agent_route_id, route_key_to_id,
                   filename, route_extractor, text_in, name_in, route, route_ids>>

\* _process_quote_block(quote_block) when an exception is raised at the start,
\* after _add_route or after _add_route_agent: `except Exception` logs the error
\* and what was stored before stays
ProcessQuoteBlockFails(quote_block, route_key, point) ==
    /\ pc # "raised"
    /\ filename >= 1
    /\ block_idx <= Len(all_quotes)
    /\ IF point = "start" \/ route_key \in DOMAIN route_key_to_id
       THEN UNCHANGED <<routes, route_id, route_key_to_id>>
       ELSE /\ routes' = add_route(routes, route_id, quote_block.route)
            /\ route_id' = route_id + 1
            /\ route_key_to_id' = (route_key :> route_id) @@ route_key_to_id
    /\ IF point = "after_agent"
       THEN /\ route_agents' =
                  add_route_agent(route_agents, agent_route_id,
                                  IF route_key \in DOMAIN route_key_to_id
                                  THEN route_key_to_id[route_key] ELSE route_id,
                                  quote_block.agent)
            /\ agent_route_id' = agent_route_id + 1
            /\ history' = [history EXCEPT
                              !.blocks = Append(@, [file |-> filename,
                                                    block |-> quote_block]),
                              !.failed = Append(@, [file |-> filename,
                                                    step |-> "block"])]
       ELSE /\ history' = [history EXCEPT
                              !.failed = Append(@, [file |-> filename,
                                                    step |-> "block"])]
            /\ UNCHANGED <<route_agents, agent_route_id>>
    /\ block_idx' = block_idx + 1
    /\ pc' = "block_failed"
    /\ UNCHANGED <<out, debug_blocks, filename, sheet_data, route_extractor, table_boundaries, sheet_name,
                   all_quotes, seen_routes, table_quotes, prev_sheet_name, prev_quotes,
                   text_in, name_in, route, route_ids>>

NextRunFailing ==
    \/ NextRun
    \/ \E rows \in RunnerSheets, sheet \in {<<"ORD1">>, <<"ORD2">>} :
          ProcessSheetFails(rows, sheet)
    \/ /\ block_idx <= Len(all_quotes)
       /\ \E point \in {"start", "after_route", "after_agent"} :
             ProcessQuoteBlockFails(all_quotes[block_idx],
                                    get_unique_key(all_quotes[block_idx].route), point)

SpecRunFailing == InitRun /\ [][NextRunFailing]_vars

----------------------------------------------------------------------------
\* Table parsing on its own: _parse_single_table applied to one span

\* largest number of cells after the first one in an agent row
MaxAgentCols == 3

\* header rows of the parsed tables: 深圳-马来, 深圳-火星, 深圳-马来 东方5kg
TableTitles ==
    {<< <<"SZ", "-", "MY">> >>, << <<"SZ", "-", "MARS">> >>,
     << <<"SZ", "-", "MY", Space, "DF", "5", "KG">> >>}

\* second rows of the parsed tables: first cell 代理, / or empty, then up to
\* MaxAgentCols cells out of 融迅, 银顺达, empty, blank, nan
AgentRows ==
    {<<first>> \o cells :
        first \in {<<"AGT">>, <<"/">>, << >>},
        cells \in UNION {[1..n -> {<<"RX">>, <<"YSD">>, << >>, <<Space>>, <<"NAN">>}] :
                            n \in 0..MaxAgentCols}}

\* a fee row wider than every agent row: 费用 | 1 | 2 | ...
FeeRow == <<<<"FEE">>>> \o [i \in 1..(MaxAgentCols + 1) |-> <<"N81">>]

\* the parsed tables: a header alone, a header and a fee row, or a header, a
\* second row and possibly the fee row
Tables ==
    {<<title>> : title \in TableTitles}
    \cup {<<title, FeeRow>> : title \in TableTitles}
    \cup {<<title, row>> : title \in TableTitles, row \in AgentRows}
    \cup {<<title, row, FeeRow>> : title \in TableTitles, row \in AgentRows}

\* sheet_name arguments: None, 订单1, 深圳
TableNames == {None, <<"ORD1">>, <<"SZ">>}

InitTable ==
    /\ sheet_data \in Tables
    /\ sheet_name \in TableNames
    /\ route_extractor = TRUE
    /\ table_boundaries = << >>
    /\ all_quotes = << >>
    /\ seen_routes = {}
    /\ table_quotes = << >>
    /\ prev_sheet_name = None
    /\ prev_quotes = << >>
    /\ text_in = None
    /\ name_in = None
    /\ route = EmptyRoute
    /\ route_ids = << >>
    /\ out = << >>
    /\ debug_blocks = << >>
    /\ routes = << >>
    /\ route_agents = << >>
    /\ route_id = 1
    /\ agent_route_id = 1
    /\ route_key_to_id = << >>
    /\ filename = 0
    /\ block_idx = 1
    /\ history = [blocks |-> << >>, sheets |-> 0, names |-> {}, failed |-> << >>]
    /\ pc = "init"

\* parser._parse_single_table(table_data, route_text, sheet_name) for the span
\* that covers sheet_data; route_text is the stripped first cell of its header
ParseSingleTable ==
    /\ pc = "init"
    /\ text_in' = Strip(sheet_data[1][1])
    /\ route' = BaseRoute(Strip(sheet_data[1][1]), sheet_name).route
    /\ table_quotes' = <<parse_single_table(sheet_data, Strip(sheet_data[1][1]), sheet_name)>>
    /\ route_ids' = RouteIdsOf(sheet_data, table_quotes'[1])
    /\ pc' = "table"
    /\ UNCHANGED <<out, runnerVars, sheet_data, route_extractor, table_boundaries, sheet_name, all_quotes,
                   seen_routes, prev_sheet_name, prev_quotes, name_in>>

\* quote.route.交易开始日期 = start_date; quote.route.交易结束日期 = end_date on r
WithDates(r) == [r EXCEPT !.start_date = <<"START">>, !.end_date = <<"END">>]

\* a collaborator sets the dates on the Route object of the k-th returned
\* quote: every holder of that object sees the change
SetDates(k) ==
    /\ pc = "table"
    /\ k \in 1..Len(table_quotes[1])
    /\ table_quotes' =
          <<[i \in 1..Len(table_quotes[1]) |->
                IF route_ids[i] = route_ids[k]
                THEN [table_quotes[1][i] EXCEPT !.route = WithDates(@)]
                ELSE table_quotes[1][i]]>>
    /\ route' = IF route_ids[k] = 0 THEN WithDates(route) ELSE route
    /\ pc' = "enriched"
    /\ UNCHANGED <<out, runnerVars, route_ids, sheet_data, route_extractor, table_boundaries, sheet_name,
                   all_quotes, seen_routes, prev_sheet_name, prev_quotes, text_in, name_in>>

NextTable ==
    \/ ParseSingleTable
    \/ \E k \in 1..MaxAgentCols : SetDates(k)

SpecTable == InitTable /\ [][NextTable]_vars

----------------------------------------------------------------------------
\* Properties of _parse_single_table

\* the quotes the call returned
TableResult == table_quotes[1]

\* the call reached the multi-column loop: two rows or more, a usable base
\* route, and an agent row with content after its first cell
MultiColumnMode ==
    /\ pc \in {"table", "enriched"}
    /\ Len(sheet_data) >= 2
    /\ BaseRoute(text_in, sheet_name).ok
    /\ ~IsSingleColumn(sheet_data)

\* a cell without agent: absent, empty, blank or the nan marker of an empty
\* spreadsheet cell
NoAgentIn(cell) == cell = None \/ Strip(cell) \in {<< >>, <<"NAN">>}

RECURSIVE AgentNames(_, _, _)
\* the stripped cells of row from 0-based column col_idx to column last that
\* carry an agent, left to right
AgentNames(row, col_idx, last) ==
    IF col_idx > last THEN << >>
    ELSE (IF col_idx < Len(row) /\ ~NoAgentIn(row[col_idx + 1])
          THEN <<Strip(row[col_idx + 1])>> ELSE << >>)
         \o AgentNames(row, col_idx + 1, last)

\* C12: in multi-column mode the agents of the returned quotes are the
\* non-empty cells of the agent row from column 1 to the last column of the
\* table, left to right, one quote each; and no quote returned for any table
\* has an empty agent name.
C12_QuotePerAgentColumn ==
    /\ MultiColumnMode =>
          [i \in 1..Len(TableResult) |-> TableResult[i].agent]
              = AgentNames(sheet_data[AgentRow(sheet_data) + 1], 1, NumCols(sheet_data) - 1)
    /\ pc = "table" =>
          \A i \in 1..Len(TableResult) :
              /\ TableResult[i].agent \notin {<< >>, None}
              /\ Strip(TableResult[i].agent) # << >>

\* a multi-column table with an agent in column 1 and in column 3 and none in
\* column 2, and a fee row wider than the agent row
C12_Witness ==
    /\ MultiColumnMode
    /\ Len(sheet_data) = 3
    /\ Len(sheet_data[2]) = 4
    /\ ~NoAgentIn(sheet_data[2][2]) /\ NoAgentIn(sheet_data[2][3])
    /\ ~NoAgentIn(sheet_data[2][4])
    /\ Len(TableResult) = 2

\* the fields _extract_column_quote copies from base_route
CopiedFields(r) ==
    <<r.origin, r.destination, r.via, r.remark, r.actual_weight, r.billing_weight,
      r.volume, r.value, r.raw>>

\* C13: in multi-column mode every returned quote holds a Route object of its
\* own, different from base_route, with the origin, destination, via, remark,
\* weights, volume, value and raw text of base_route; after the dates are set
\* on the route of one quote, no other quote and not base_route carries them.
C13_ColumnRoutesIndependent ==
    MultiColumnMode =>
        /\ \A i \in 1..Len(TableResult) :
              /\ CopiedFields(TableResult[i].route) = CopiedFields(route)
              /\ route_ids[i] # 0
              /\ \A j \in 1..Len(TableResult) : route_ids[i] = route_ids[j] => i = j
        /\ pc = "enriched" =>
              /\ Cardinality({i \in 1..Len(TableResult) :
                                 TableResult[i].route.start_date # None}) = 1
              /\ route.start_date = None /\ route.end_date = None

\* the dates were set on one of three column quotes of a table whose header
\* carries a remark and a weight
C13_Witness ==
    /\ MultiColumnMode /\ pc = "enriched"
    /\ Len(TableResult) = 3
    /\ route.remark = <<"DF">> /\ route.actual_weight = <<"5">>
    /\ TableResult[2].route.start_date = <<"START">>

\* the table has no agent row, or its agent row has nothing from column 2 on
OneAgentColumn ==
    \/ AgentRow(sheet_data) = -1
    \/ AgentNames(sheet_data[AgentRow(sheet_data) + 1], 2, NumCols(sheet_data) - 1) = << >>

\* the name the single quote is to carry: the column-1 cell of the agent row,
\* or the placeholder of the sheet name (订单1-单列报价, 未标注代理商 without one)
ColumnOneOrPlaceholder ==
    IF /\ AgentRow(sheet_data) # -1
       /\ AgentNames(sheet_data[AgentRow(sheet_data) + 1], 1, 1) # << >>
    THEN AgentNames(sheet_data[AgentRow(sheet_data) + 1], 1, 1)[1]
    ELSE AgentNameOf(None, sheet_name)

\* C14: a table of two rows or more with a complete route and no agent row, or
\* an agent row with nothing after column 1, yields exactly one quote; its agent
\* is the column-1 cell of the agent row or else the placeholder, and never
\* the column-0 cell of the agent row.
C14_SingleQuoteAgent ==
    (/\ pc = "table" /\ Len(sheet_data) >= 2 /\ OneAgentColumn
     /\ Truthy(route.origin) /\ Truthy(route.destination)) =>
        /\ Len(TableResult) = 1
        /\ TableResult[1].agent = ColumnOneOrPlaceholder
        /\ AgentRow(sheet_data) # -1 =>
              TableResult[1].agent # Strip(sheet_data[AgentRow(sheet_data) + 1][1])

----------------------------------------------------------------------------
\* Properties of HorizontalParserRunner

\* the quote blocks processed so far, in order, and the file, sheet name, raw
\* key and route id of the i-th of them
NumBlocks == Len(history.blocks)
BlockFile(i) == history.blocks[i].file
BlockSheet(i) == history.blocks[i].block.route.sheet
BlockKey(i) == get_unique_key(history.blocks[i].block.route)
BlockRouteId(i) == route_agents[i].route_id

\* blocks i and j come from sheets of the same name with the same route header
\* in different files
SameSheetOtherFile(i, j) ==
    /\ BlockFile(i) # BlockFile(j)
    /\ BlockSheet(i) = BlockSheet(j)
    /\ history.blocks[i].block.route.raw = history.blocks[j].block.route.raw

\* C15: route_key_to_id is empty when a file starts, and the record of a quote
\* block never carries a route id that a block of an earlier file carries.
C15_MapResetPerFile ==
    /\ pc = "file" => DOMAIN route_key_to_id = {}
    /\ \A i, j \in 1..NumBlocks :
          BlockFile(j) < BlockFile(i) => BlockRouteId(i) # BlockRouteId(j)

\* the same sheet name and header were processed in the first and in the second
\* file
C15_Witness ==
    \E i, j \in 1..NumBlocks :
        /\ SameSheetOtherFile(i, j)
        /\ BlockFile(i) = 1 /\ BlockFile(j) = 2
        /\ Len(routes) = 2

\* C16 as stated: two quote blocks of sheets of the same name with the same
\* route header in different files have different raw keys.
C16_DifferentRawKeys ==
    \A i, j \in 1..NumBlocks : SameSheetOtherFile(i, j) => BlockKey(i) # BlockKey(j)

\* C16 amended: such blocks have equal raw keys and their records carry
\* different route ids.
C16_EqualKeysOwnRecords ==
    \A i, j \in 1..NumBlocks :
        SameSheetOtherFile(i, j) =>
            BlockKey(i) = BlockKey(j) /\ BlockRouteId(i) # BlockRouteId(j)

\* sheet 订单1 with the header 深圳-马来 was processed in both files
C16_Witness ==
    \E i, j \in 1..NumBlocks :
        /\ SameSheetOtherFile(i, j)
        /\ BlockSheet(i) = <<"ORD1">>
        /\ history.blocks[i].block.route.raw = <<"SZ", "-", "MY">>
        /\ pc = "block"

\* C18: a call of _process_quote_block whose raw key is in route_key_to_id adds
\* no route record, leaves the route id counter alone and adds one route_agents
\* record with the mapped id; a call with a new key adds one route record and
\* one route_agents record with its id and maps the key to that id.
C18_ReuseOrAdd ==
    [][pc' = "block" =>
          LET key == get_unique_key(all_quotes[block_idx].route)
              added == route_agents'[Len(route_agents')]
          IN /\ Len(route_agents') = Len(route_agents) + 1
             /\ SubSeq(route_agents', 1, Len(route_agents)) = route_agents
             /\ IF key \in DOMAIN route_key_to_id
                THEN /\ routes' = routes
                     /\ route_id' = route_id
                     /\ added.route_id = route_key_to_id[key]
                ELSE /\ Len(routes') = Len(routes) + 1
                     /\ SubSeq(routes', 1, Len(routes)) = routes
                     /\ routes'[Len(routes')].route_id = added.route_id
                     /\ \A k \in 1..Len(routes) : routes[k].route_id # added.route_id
                     /\ key \in DOMAIN route_key_to_id'
                     /\ route_key_to_id'[key] = added.route_id]_vars

\* both branches were taken: a block added a route, and the next block, with
\* the same raw key and another agent, reused it
C18_Witness ==
    /\ pc = "block"
    /\ NumBlocks >= 2
    /\ BlockFile(NumBlocks) = BlockFile(NumBlocks - 1)
    /\ BlockKey(NumBlocks) = BlockKey(NumBlocks - 1)
    /\ history.blocks[NumBlocks].block.agent # history.blocks[NumBlocks - 1].block.agent
    /\ BlockRouteId(NumBlocks) = BlockRouteId(NumBlocks - 1)
    /\ Len(routes) = BlockRouteId(NumBlocks)

----------------------------------------------------------------------------
\* The sheet name as origin (SpecExtract, with self.route_extractor)

\* the origin _extract_route_parts finds in the route part of the text
TextOrigin == extract_route_parts(RoutePart(text_in)).origin

\* the sheet name after _deep_clean_location
CleanedName == deep_clean_location(name_in)

----------------------------------------------------------------------------
\* Billing weight (SpecExtract, both branches)

\* C20: after _extract_route_from_text the billing weight equals the actual
\* weight when a weight was extracted from the text and is unset when none was,
\* and the Route a column gets from this route carries the same actual and
\* billing weight.
C20_BillingWeightDefault ==
    pc = "extracted" =>
        /\ route.actual_weight # None => route.billing_weight = route.actual_weight
        /\ route.actual_weight = None => route.billing_weight = None
        /\ ColumnRoute(route, name_in).actual_weight = route.actual_weight
        /\ ColumnRoute(route, name_in).billing_weight = route.billing_weight

----------------------------------------------------------------------------
\* Numbers of the full text (SpecExtract, both branches)

\* C21: the weight, the volume and the value of the extracted route are the
\* first number in front of a weight, volume or currency unit anywhere in the
\* full text, behind the first bar included.
C21_NumbersFromFullText ==
    (pc = "extracted" /\ Truthy(text_in)) =>
        /\ route.actual_weight = extract_number(text_in, units_of.weight)
        /\ route.volume = extract_number(text_in, units_of.volume)
        /\ route.value = extract_number(text_in, units_of.value)

----------------------------------------------------------------------------
\* _process_quote_block on its own: applied to two quote blocks whose routes
\* have the same origin, destination and via (the quotes parse_sheet returns for
\* one sheet never share a raw key, the in-sheet deduplication keeps one quote per
\* signature)

\* the pairs of quote blocks; _sheet_name of a route is absent, None as a
\* text, 订单1 or 订单2
KeyBlocks ==
    {<<NewQuote(NewRoute(origin, destination, via, None, sheet1), <<"RX">>),
       NewQuote(NewRoute(origin, destination, via, None, sheet2), <<"YSD">>)>> :
        origin \in {<<"SZ">>, <<"HK">>},
        destination \in {<<"MY">>, <<"SG">>, None},
        via \in {<<"UK">>, None},
        sheet1 \in {None, <<"NONE">>, <<"ORD1">>, <<"ORD2">>},
        sheet2 \in {None, <<"NONE">>, <<"ORD1">>, <<"ORD2">>}}

InitKey ==
    /\ sheet_data = << >>
    /\ route_extractor = TRUE
    /\ table_boundaries = << >>
    /\ sheet_name = None
    /\ all_quotes \in KeyBlocks
    /\ seen_routes = {}
    /\ table_quotes = << >>
    /\ prev_sheet_name = None
    /\ prev_quotes = << >>
    /\ text_in = None
    /\ name_in = None
    /\ route = EmptyRoute
    /\ route_ids = << >>
    /\ out = << >>
    /\ debug_blocks = << >>
    /\ routes = << >>
    /\ route_agents = << >>
    /\ route_id = 1
    /\ agent_route_id = 1
    /\ route_key_to_id = << >>
    /\ filename = 1
    /\ block_idx = 1
    /\ history = [blocks |-> << >>, sheets |-> 0, names |-> {}, failed |-> << >>]
    /\ pc = "init"

NextKey ==
    /\ block_idx <= Len(all_quotes)
    /\ ProcessQuoteBlock(all_quotes[block_idx], get_unique_key(all_quotes[block_idx].route))

SpecKey == InitKey /\ [][NextKey]_vars

\* C17: two routes with the same origin, destination and via have equal raw
\* keys when their sheet identities are equal and different raw keys when the
\* sheet identities differ, an absent identity included; with equal keys the
\* second block reuses the route record of the first.
C17_KeyEqualIffSameSheet ==
    NumBlocks = 2 =>
        /\ (BlockKey(1) = BlockKey(2)) <=> (BlockSheet(1) = BlockSheet(2))
        /\ (Len(routes) = 1) <=> (BlockSheet(1) = BlockSheet(2))

----------------------------------------------------------------------------
\* The location functions on their own: is_valid_location, Route.normalize_location
\* and _clean_location_suffix called on one text, the last two a second time on
\* their own result

\* largest number of atoms of a location text
MaxLocLen == 5

\* the argument: None or a text of 深圳, 马来, 西亚, 专线 and blanks
LocationTexts ==
    {None} \cup UNION {[1..n -> {"SZ", "MY", "XY", "ZX", Space}] : n \in 0..MaxLocLen}

InitLocation ==
    /\ sheet_data = << >>
    /\ route_extractor = TRUE
    /\ table_boundaries = << >>
    /\ sheet_name = None
    /\ all_quotes = << >>
    /\ seen_routes = {}
    /\ table_quotes = << >>
    /\ prev_sheet_name = None
    /\ prev_quotes = << >>
    /\ text_in \in LocationTexts
    /\ name_in = None
    /\ route = EmptyRoute
    /\ route_ids = << >>
    /\ out = << >>
    /\ debug_blocks = << >>
    /\ routes = << >>
    /\ route_agents = << >>
    /\ route_id = 1
    /\ agent_route_id = 1
    /\ route_key_to_id = << >>
    /\ filename = 0
    /\ block_idx = 1
    /\ history = [blocks |-> << >>, sheets |-> 0, names |-> {}, failed |-> << >>]
    /\ pc = "init"

\* is_valid_location(text), called twice on the same text
IsValidLocation ==
    /\ pc \in {"init", "valid"} /\ Len(out) < 2
    /\ out' = Append(out, is_valid_location(text_in))
    /\ pc' = "valid"
    /\ UNCHANGED <<runnerVars, route_ids, sheet_data, route_extractor, table_boundaries,
                   sheet_name, all_quotes, seen_routes, table_quotes, prev_sheet_name,
                   prev_quotes, text_in, name_in, route>>

\* Route.normalize_location(text), then Route.normalize_location of the result
NormalizeLocation ==
    /\ pc \in {"init", "normalized"} /\ Len(out) < 2
    /\ out' = Append(out, normalize_location(IF out = << >> THEN text_in ELSE out[1]))
    /\ pc' = "normalized"
    /\ UNCHANGED <<runnerVars, route_ids, sheet_data, route_extractor, table_boundaries,
                   sheet_name, all_quotes, seen_routes, table_quotes, prev_sheet_name,
                   prev_quotes, text_in, name_in, route>>

\* parser._clean_location_suffix(text), then _clean_location_suffix of the result
CleanLocationSuffix ==
    /\ pc \in {"init", "cleaned"} /\ Len(out) < 2
    /\ out' = Append(out, clean_location_suffix(IF out = << >> THEN text_in ELSE out[1]))
    /\ pc' = "cleaned"
    /\ UNCHANGED <<runnerVars, route_ids, sheet_data, route_extractor, table_boundaries,
                   sheet_name, all_quotes, seen_routes, table_quotes, prev_sheet_name,
                   prev_quotes, text_in, name_in, route>>

NextLocation == IsValidLocation \/ NormalizeLocation \/ CleanLocationSuffix

SpecLocation == InitLocation /\ [][NextLocation]_vars

\* C22: is_valid_location returns True exactly for a text that is not empty,
\* also not once trimmed, and whose trimmed form equals, contains or is contained
\* by an entry of the whitelist; a second call on the same text returns the same.
C22_ValidIffNonEmptyMatch ==
    pc = "valid" =>
        /\ out[1] = (/\ text_in # None
                     /\ Strip(text_in) # << >>
                     /\ \E entry \in LOCATION_WHITELIST :
                           \/ Strip(text_in) = entry
                           \/ IsSub(entry, Strip(text_in))
                           \/ IsSub(Strip(text_in), entry))
        /\ Len(out) = 2 => out[2] = out[1]

\* C23: normalize_location of a normalized text returns it unchanged.
C23_NormalizeIdempotent ==
    (pc = "normalized" /\ Len(out) = 2) => out[2] = out[1]

\* C24 as stated: _clean_location_suffix of a cleaned text returns it unchanged,
\* and a text whose cleaned form has fewer than 2 characters is returned as it
\* was.
C24_SuffixCleanIdempotent ==
    pc = "cleaned" =>
        /\ Len(out) = 2 => out[2] = out[1]
        /\ (Truthy(text_in) /\ CharLen(SuffixRounds(text_in, 3)) < 2) => out[1] = text_in

\* C24 amended: _clean_location_suffix of a cleaned text returns it unchanged
\* when the three rounds of the first call left no business suffix at the end
\* of the text, and a text whose cleaned form has fewer than 2 characters is
\* returned as it was.
C24_IdempotentWithinRounds ==
    pc = "cleaned" =>
        /\ (Len(out) = 2 /\ SuffixCut(SuffixRounds(text_in, 3)) = SuffixRounds(text_in, 3))
              => out[2] = out[1]
        /\ (Truthy(text_in) /\ CharLen(SuffixRounds(text_in, 3)) < 2) => out[1] = text_in

\* 深圳专线专线专线 was cleaned to 深圳 in three rounds and then cleaned again
C24_Witness ==
    /\ pc = "cleaned" /\ Len(out) = 2
    /\ text_in = <<"SZ", "ZX", "ZX", "ZX">>
    /\ out[1] = <<"SZ">>

----------------------------------------------------------------------------
\* Failures of a sheet or of a quote block (SpecRunFailing)

\* s is a prefix of t
IsPrefix(s, t) == Len(s) <= Len(t) /\ SubSeq(t, 1, Len(s)) = s

\* C25: no exception reaches run(); a step in which a sheet or a quote block
\* failed leaves the stored records in place (a failed sheet stores nothing) and
\* moves on to the next quote block or sheet of the same file.
C25_FailureContained ==
    /\ [](pc # "raised")
    /\ [][pc' \in {"sheet_failed", "block_failed"} =>
             /\ IsPrefix(routes, routes') /\ IsPrefix(route_agents, route_agents')
             /\ filename' = filename
             /\ pc' = "sheet_failed" =>
                   /\ routes' = routes /\ route_agents' = route_agents
                   /\ route_key_to_id' = route_key_to_id
                   /\ history'.sheets = history.sheets + 1
             /\ pc' = "block_failed" =>
                   /\ all_quotes' = all_quotes
                   /\ block_idx' = block_idx + 1]_vars

\* a sheet and a quote block of the first file failed, another sheet of that
\* file stored a record, and a quote block of the second file was stored
C25_Witness ==
    /\ pc = "block" /\ filename = 2
    /\ \E i \in 1..Len(history.failed) :
          history.failed[i].file = 1 /\ history.failed[i].step = "sheet"
    /\ \E i \in 1..Len(history.failed) :
          history.failed[i].file = 1 /\ history.failed[i].step = "block"
    /\ \E i \in 1..NumBlocks : BlockFile(i) = 1
    /\ BlockFile(NumBlocks) = 2

\* C27: the k-th route record carries the id k and the id counter is one past
\* the last id, whatever files, sheets and quote blocks were processed; every
\* value of route_key_to_id and every route id of a route_agents record is the
\* id of a stored route record.
C27_RouteIdsConsistent ==
    /\ \A k \in 1..Len(routes) : routes[k].route_id = k
    /\ route_id = Len(routes) + 1
    /\ \A key \in DOMAIN route_key_to_id :
          \E k \in 1..Len(routes) : routes[k].route_id = route_key_to_id[key]
    /\ \A i \in 1..Len(route_agents) :
          \E k \in 1..Len(routes) : routes[k].route_id = route_agents[i].route_id

\* the second file stored a route after the map was reset, and its id follows
\* the ids of the first file
C27_Witness ==
    /\ pc = "block" /\ filename = 2
    /\ \E i \in 1..NumBlocks : BlockFile(i) = 1
    /\ BlockFile(NumBlocks) = 2
    /\ Len(routes) >= 2
    /\ BlockRouteId(NumBlocks) = Len(routes)
    /\ DOMAIN route_key_to_id = {BlockKey(NumBlocks)}

----------------------------------------------------------------------------
\* The quote of the sheet name (Spec)

\* the agent name of a quote built from the sheet name: <sheet>-sheet名提取
SheetNameAgent(sheet) == sheet \o <<"-", "SHEETNAME">>

\* the sheet name alone resolves origin and destination
SheetNameResolves(sheet) ==
    /\ Truthy(extract_route_from_text(sheet, sheet).origin)
    /\ Truthy(extract_route_from_text(sheet, sheet).destination)

\* C29: a returned quote carries the agent name <sheet>-sheet名提取 only when no
\* span of the sheet yielded a quote and the sheet name resolves origin and
\* destination, and it is then the only returned quote, with the route of the
\* sheet name; an empty sheet returns no quote, whatever its name.
C29_SheetNameQuote ==
    pc = "parsed" =>
        /\ \A i \in 1..Len(all_quotes) :
              all_quotes[i].agent = SheetNameAgent(sheet_name) =>
                  /\ \A t \in 1..Len(table_quotes) : table_quotes[t] = << >>
                  /\ SheetNameResolves(sheet_name)
                  /\ Len(all_quotes) = 1
                  /\ all_quotes[i].route = extract_route_from_text(sheet_name, sheet_name)
        /\ sheet_data = << >> => all_quotes = << >>

\* a sheet named 深圳-马来 whose only span has no agent returned the quote of
\* the sheet name
C29_Witness ==
    /\ pc = "parsed"
    /\ sheet_name = <<"SZ", "-", "MY">>
    /\ Len(table_quotes) = 1 /\ table_quotes[1] = << >>
    /\ Len(all_quotes) = 1
    /\ all_quotes[1].agent = SheetNameAgent(sheet_name)
    /\ all_quotes[1].route.destination = <<"MY">>

----------------------------------------------------------------------------
\* Spans of one row (Spec)

\* the span t of the last call consists of its header row alone
HeaderOnly(t) == SpanStart(t) = SpanEnd(t)

\* the merge signature of the route the header of span t resolves to
HeaderSig(t) == get_route_signature(BaseRoute(SpanText(t), sheet_name).route)

\* C30: a span that consists of its header row alone yields no quote; the
\* signature of its header is among the seen signatures only when a quote of
\* another span has it, and the first quote with that signature among the later
\* spans is returned.
C30_HeaderOnlySpan ==
    pc = "parsed" =>
        \A t \in 1..NumSpans :
            HeaderOnly(t) =>
                /\ table_quotes[t] = << >>
                /\ HeaderSig(t) \in seen_routes =>
                       \E i \in 1..Len(Candidates) : Sig(Candidates[i]) = HeaderSig(t)
                /\ \A u \in (t + 1)..NumSpans :
                       (/\ table_quotes[u] # << >>
                        /\ Sig(table_quotes[u][1]) = HeaderSig(t)
                        /\ \A v \in 1..(u - 1) :
                              \A k \in 1..Len(table_quotes[v]) :
                                  Sig(table_quotes[v][k]) # HeaderSig(t))
                       => \E k \in 1..Len(all_quotes) : all_quotes[k] = table_quotes[u][1]

\* the header 深圳-香港 stood alone in the first span and again over an agent
\* row in the second, and the quote of the second span was returned
C30_Witness ==
    /\ pc = "parsed"
    /\ NumSpans = 2
    /\ HeaderOnly(1)
    /\ SpanText(1) = <<"SZ", "-", "HK">> /\ SpanText(2) = SpanText(1)
    /\ table_quotes[1] = << >>
    /\ all_quotes # << >> /\ all_quotes = table_quotes[2]
    /\ Sig(all_quotes[1]) = HeaderSig(1)

----------------------------------------------------------------------------
\* What the attached DebugLogger is told (Spec)

\* the records of the last call for the span t
BlocksOf(t) == {i \in 1..Len(debug_blocks) : debug_blocks[i].block_index = t - 1}

\* the rows of the span t
SpanRows(t) == SubSeq(sheet_data, SpanStart(t) + 1, SpanEnd(t) + 1)

\* the k-th quote of the span t was dropped as a duplicate: a quote before it,
\* of this span or of an earlier one, has its merge signature
DroppedDuplicate(t, k) ==
    \/ \E j \in 1..(k - 1) : Sig(table_quotes[t][j]) = Sig(table_quotes[t][k])
    \/ \E u \in 1..(t - 1) : \E j \in 1..Len(table_quotes[u]) :
          Sig(table_quotes[u][j]) = Sig(table_quotes[t][k])

\* the columns the column loop of the span t skipped for an empty agent cell
SkippedColumns(t) ==
    IF Len(SpanRows(t)) < 2 \/ ~BaseRoute(SpanText(t), sheet_name).ok
       \/ IsSingleColumn(SpanRows(t))
    THEN {}
    ELSE {c \in 1..(NumCols(SpanRows(t)) - 1) :
             extract_column_quote(SpanRows(t), c, AgentRow(SpanRows(t)),
                                  BaseRoute(SpanText(t), sheet_name).route,
                                  sheet_name) = << >>}

\* how many ends the header of the span t resolves, sheet-name fallback included
EndsResolved(t) ==
    LET r == BaseRoute(SpanText(t), sheet_name).route
    IN (IF Truthy(r.origin) THEN 1 ELSE 0) + (IF Truthy(r.destination) THEN 1 ELSE 0)

\* the reasons the DebugLogger is given for the sheet 火星-火星 / 代理 | 融迅 under
\* the name 订单1, whose only span is rejected with neither end resolved
NeitherEndReasons ==
    LET rows == << << <<"MARS", "-", "MARS">> >>, << <<"AGT">>, <<"RX">> >> >>
        blocks == parse_sheet_blocks(rows, parse_sheet(rows, <<"ORD1">>))
    IN {blocks[i].reason : i \in 1..Len(blocks)}

\* C26: after a call with a DebugLogger attached every span has a record; every
\* quote dropped as a duplicate has a record of its span that carries its agent,
\* an outcome other than "success" and a reason; every column skipped for an
\* empty agent cell has a "skipped" record of its span; and a rejected span
\* whose route resolved one end carries another reason than the rejected span
\* of a route that resolved neither.
C26_EverythingReported ==
    (pc = "parsed" /\ sheet_data # << >>) =>
        /\ \A t \in 1..NumSpans : BlocksOf(t) # {}
        /\ \A t \in 1..NumSpans : \A k \in 1..Len(table_quotes[t]) :
              DroppedDuplicate(t, k) =>
                  \E i \in BlocksOf(t) :
                      /\ debug_blocks[i].extracted # << >>
                      /\ debug_blocks[i].extracted[3] = table_quotes[t][k].agent
                      /\ debug_blocks[i].status # "success"
                      /\ debug_blocks[i].reason # None
        /\ \A t \in 1..NumSpans :
              Cardinality({i \in BlocksOf(t) : debug_blocks[i].status = "skipped"})
                 >= Cardinality(SkippedColumns(t))
        /\ \A t \in 1..NumSpans :
              (table_quotes[t] = << >> /\ Len(SpanRows(t)) >= 2 /\ EndsResolved(t) = 1)
              => \A i \in BlocksOf(t) : debug_blocks[i].reason \notin NeitherEndReasons

====
